---- MODULE Spec2Model ----
(***************************************************************************)
(* A model of the MAX backend: its market simulator                        *)
(* (backend/app/services/market_simulator.py), its seed generator          *)
(* (backend/app/seed/seed_data.py, backend/app/seed/__main__.py), its      *)
(* realtime layer and its read API.                                        *)
(*                                                                         *)
(* Spec      the scheduler task (backfill, loop, ticks) and the ticks of   *)
(*           another scheduler on the same database                        *)
(* FairSpec  the scheduler task alone, with fair wake-ups                  *)
(* LifeSpec  start_market_simulator and stop_market_simulator              *)
(* ClockSpec the scheduler task with sleeps that end late                  *)
(* SessionSpec  the scheduler task and a request holding a get_db session  *)
(* SeedSpec  the seed command                                              *)
(* RealtimeSpec  the broker singletons (backend/app/core/redis.py), the    *)
(*           publisher (backend/app/realtime/publish.py) and the socket    *)
(*           server (backend/app/realtime/socket.py)                       *)
(* ApiSpec   the read handlers of backend/app/api over the stored files    *)
(* PriceSpec _generate_price_change with its trend state per sector        *)
(* TrendSpec a long run of _generate_price_change calls for one sector     *)
(*                                                                         *)
(* Units: time is in seconds, prices are in hundredths (100.0 is 10000),   *)
(* percentages are in hundredths of a percent (1.5 % is 150).              *)
(***************************************************************************)
EXTENDS Integers, Sequences, FiniteSets, TLC

(***************************************************************************)
(* Bounds of the model.                                                    *)
(***************************************************************************)
\* iterations of the scheduler's while-loop followed, over all tasks
MaxIterations == 2
\* candles per sector written by the startup backfill (288 in the source)
BackfillCandles == 2
\* scheduler tasks start_market_simulator may create
MaxTasks == 3
\* exceptions the database and the broker raise in one run
MaxFaults == 1
\* candle generations of other schedulers that are followed
MaxPeerTicks == 1

(***************************************************************************)
(* Program constants.                                                      *)
(***************************************************************************)
FiveMinutes == 300
RetryDelay == 60
DriftDelay == 1
DefaultBasePrice == 10000
MinPrice == 1
None == 0
ENABLE_MARKET_SIMULATOR == TRUE

(***************************************************************************)
(* Input sets: the sectors of the database, the outcomes of the random     *)
(* draws, how late a sleep may end, and the faults the environment (the    *)
(* database, the broker) may raise.                                        *)
(***************************************************************************)
SectorOrder == <<"tech", "finance">>
SectorIds == {SectorOrder[i] : i \in 1..Len(SectorOrder)}
ChangeDraws == {50}
VolumeDraws == {5000}
Lateness == {0}
GenFaults == {"none", "query", "commit"}
Outcomes == {"ok", "error"}
\* other live schedulers on the same database, followed only by their ticks
Peers == {"peer"}

Max(a, b) == IF a >= b THEN a ELSE b
Min(a, b) == IF a <= b THEN a ELSE b

VARIABLES
    now,             \* datetime.now(timezone.utc)
    dbSectors,       \* committed rows of table sectors: id -> row
    dbCandles,       \* committed rows of table sector_candles
    peerKeys,        \* the (peer, sector, timestamp) a peer generated a candle for
    schedPc,         \* where the scheduler task is suspended
    iterations,      \* while-loop iterations begun
    start_time,      \* _backfill_day_of_data: start_time
    bfPos,           \* _backfill_day_of_data: position in the (i, sector) loops
    next_run,        \* _scheduler_loop: next_run
    wakeAt,          \* the deadline of the asyncio.sleep the task is in
    timestamp,       \* _update_all_sectors: timestamp
    sectors,         \* the Sector objects loaded by the outer session
    genPc,           \* per sector: where its _generate_candle_for_sector is
    faults,          \* exceptions the environment has raised so far
    sessions,        \* the database sessions (SessionLocal()) that are open
    simulator_task,  \* the module global _simulator_task: a task id or None
    taskPc,          \* per scheduler task: its life, as start and stop see it
    stopPc,          \* where the stop_market_simulator call in flight is
    stopTask,        \* the task that call awaits
    dbAgents,        \* committed rows of table agents
    dbDiscussions,   \* committed rows of table discussions
    dbMessages,      \* committed rows of table discussion_messages
    dbLinks,         \* committed rows of the association table discussion_agents
    seedPc,          \* where the seed command (python -m app.seed) is
    seedPos,         \* seed_discussions: position in the (sector, i) loops
    force,           \* the --force argument of the seed command
    pending,         \* rows the seed's session holds and has not committed
    before,          \* the tables as the running seed command found them
    exitStatus,      \* the exit status of the seed command that ended last
    dbSession,       \* the seed command's session: none, open or closed
    runs,            \* seed commands started
    redis_client,    \* core/redis.py: the module global _redis_client
    pubsub,          \* core/redis.py: the module global _pubsub
    made,            \* the clients and subscription handles created so far
    closed,          \* the clients and handles whose close() has completed
    closePc,         \* where the close_redis call in flight is
    connected_clients, \* realtime/socket.py: the module global _connected_clients
    online,          \* sessions that connected and have not disconnected since
    connPc,          \* per session: where its connect handler is
    storage,         \* the JSON files of utils/storage.py
    sector_trends,   \* market_simulator.py: the module global _sector_trends
    calls,           \* calls of _generate_price_change followed
    last             \* what the last step did (history, read by the properties)

dbVars == <<dbSectors, dbCandles>>
loopVars == <<iterations, start_time, bfPos, next_run, wakeAt, timestamp>>
simVars == <<now, dbVars, peerKeys, schedPc, loopVars, sectors, genPc, faults,
             sessions>>
lifeVars == <<simulator_task, taskPc, stopPc, stopTask>>
seedTables == <<dbAgents, dbDiscussions, dbMessages, dbLinks>>
seedVars == <<seedTables, seedPc, seedPos, force, pending, before, exitStatus,
              dbSession, runs>>
redisVars == <<redis_client, pubsub, made, closed, closePc>>
socketVars == <<connected_clients, online, connPc>>
\* the services beside the simulator: broker connection, push server, REST
\* storage, and the price model's trend state
priceVars == <<sector_trends, calls>>
svcVars == <<redisVars, socketVars, storage, priceVars>>
\* what the simulator's steps leave alone
idleVars == <<lifeVars, seedVars, svcVars>>
vars == <<simVars, lifeVars, seedVars, svcVars, last>>

(***************************************************************************)
(* Time buckets.                                                           *)
(***************************************************************************)
Round5(dt) == (dt \div FiveMinutes) * FiveMinutes

\* Next5Same is the faulty variant that stays on a boundary it is exactly on
Next5Same(t) == IF Round5(t) < t THEN Round5(t) + FiveMinutes ELSE Round5(t)
Next5(t) ==
    LET rounded == Round5(t)
    IN  IF rounded <= t THEN rounded + FiveMinutes ELSE rounded

(***************************************************************************)
(* The candle table and one sector's candle generation.                    *)
(***************************************************************************)
SectorRow(price, change, pct, volume) ==
    [currentPrice |-> price, change |-> change, changePercent |-> pct, volume |-> volume]

CandleRow(ts, s, v) == [timestamp |-> ts, sectorId |-> s, value |-> v]

SameKey(r, q) == r.sectorId = q.sectorId /\ r.timestamp = q.timestamp

\* _get_last_candle: the sector's row of greatest timestamp, as a set of at most one
LastCandle(db, s) ==
    LET rows == {r \in db : r.sectorId = s}
    IN  IF rows = {} THEN {}
        ELSE {CHOOSE r \in rows : \A q \in rows : q.timestamp <= r.timestamp}

GetBasePrice(db, sector, s) ==
    LET last_candle == LastCandle(db, s)
    IN  IF last_candle # {} THEN (CHOOSE r \in last_candle : TRUE).value
        ELSE IF sector.currentPrice > 0 THEN sector.currentPrice
        ELSE DefaultBasePrice

\* _generate_price_change: base_price * (1 + change_percent / 100), floored at 0.01;
\* change_percent stands for the combination of the random terms
GeneratePriceChangeNoFloor(base_price, change_percent) ==
    base_price + (base_price * change_percent) \div 10000
GeneratePriceChange(base_price, change_percent) ==
    Max(MinPrice, base_price + (base_price * change_percent) \div 10000)

\* the query for the candle of this sector and timestamp (.first(): at most one
\* row); ExistingCandleNever is the faulty variant that finds no row
ExistingCandleNever(db, s, ts) == {}
ExistingCandle(db, s, ts) ==
    LET rows == {r \in db : r.sectorId = s /\ r.timestamp = ts}
    IN  IF rows = {} THEN {} ELSE {CHOOSE r \in rows : TRUE}

\* what the session holds at the commit: the row it updates or the row it inserts
PendingWrite(db, s, ts, new_price) ==
    LET existing == ExistingCandle(db, s, ts)
    IN  IF existing # {}
        THEN [kind |-> "update", old |-> CHOOSE r \in existing : TRUE,
              row |-> CandleRow(ts, s, new_price)]
        ELSE [kind |-> "insert", old |-> CandleRow(ts, s, new_price),
              row |-> CandleRow(ts, s, new_price)]

\* the composite primary key (timestamp, sectorId) of sector_candles
PrimaryKeyViolation(db, w) ==
    w.kind = "insert" /\ \E r \in db : SameKey(r, w.row)

ApplyWrite(db, w) ==
    IF w.kind = "update" THEN (db \ {w.old}) \cup {w.row} ELSE db \cup {w.row}

\* line 180: old_price; OldPriceBase is the faulty variant that ignores currentPrice
OldPriceBase(sector, base_price) == base_price
OldPrice(sector, base_price) ==
    IF sector.currentPrice > 0 THEN sector.currentPrice ELSE base_price

ChangePercent(change, old_price) ==
    IF old_price > 0 THEN (change * 10000) \div old_price ELSE 0

\* The synchronous part of _generate_candle_for_sector (lines 149-190 and, on a
\* fault, 209-214): the table, the Sector object and the outcome it leaves.
Gen(db, sector, s, ts, draw, volume, fault) ==
    LET base_price == GetBasePrice(db, sector, s)
        new_price  == GeneratePriceChange(base_price, draw)
        w          == PendingWrite(db, s, ts, new_price)
        old_price  == OldPrice(sector, base_price)
        change     == new_price - old_price
        updated    == SectorRow(new_price, change, ChangePercent(change, old_price), volume)
        committed  == fault = "none" /\ ~PrimaryKeyViolation(db, w)
    IN  IF fault = "query"
        THEN [db |-> db, sector |-> sector, ok |-> FALSE, price |-> 0,
              base |-> 0, pre |-> sector.currentPrice]
        ELSE [db |-> IF committed THEN ApplyWrite(db, w) ELSE db,
              sector |-> updated, ok |-> committed, price |-> new_price,
              base |-> base_price, pre |-> sector.currentPrice]

\* the record the properties read after a candle generation
GenStep(who, s, ts, fault, g) ==
    [op |-> "gen", who |-> who, phase |-> IF who = "task" THEN schedPc ELSE "gather",
     sector |-> s, timestamp |-> ts, fault |-> fault,
     existed |-> \E r \in dbCandles : r.sectorId = s /\ r.timestamp = ts,
     rows |-> Cardinality(dbCandles), ok |-> g.ok, price |-> g.price,
     base |-> g.base, pre |-> g.pre, obj |-> g.sector]

Step(name) == [op |-> name]

(***************************************************************************)
(* The simulator's specification starts where start_market_simulator has   *)
(* just created the scheduler task (line 323).  The sector table is seeded *)
(* (one row still at the column default currentPrice 0.0) or empty, the    *)
(* candle table is empty or holds earlier candles, and another scheduler   *)
(* may be alive on the same database: a task the handle no longer names    *)
(* (lines 318-337) or the scheduler of another worker process.             *)
(***************************************************************************)
StartTimes == {130}

InitSectorTables ==
    { [s \in SectorIds |-> SectorRow(IF s = "tech" THEN 0 ELSE 20000, 0, 0, 0)],
      [s \in {} |-> SectorRow(0, 0, 0, 0)] }

InitCandleTables ==
    { {}, {CandleRow(-3000, s, 15000) : s \in SectorIds} }

IdleGen == [s \in SectorIds |-> "idle"]
NoObjects == [s \in {} |-> SectorRow(0, 0, 0, 0)]
NoTasks == [t \in {} |-> "done"]

\* the tables of the database, and a session that holds nothing
Tables ==
    [sectors |-> dbSectors, agents |-> dbAgents, discussions |-> dbDiscussions,
     messages |-> dbMessages, links |-> dbLinks, candles |-> dbCandles]

NoRows ==
    [sectors |-> NoObjects, agents |-> {}, discussions |-> {}, messages |-> {},
     links |-> {}, candles |-> {}]

SeedIdle ==
    /\ dbAgents = {}
    /\ dbDiscussions = {}
    /\ dbMessages = {}
    /\ dbLinks = {}
    /\ seedPc = "idle"
    /\ seedPos = 0
    /\ force = FALSE
    /\ pending = NoRows
    /\ before = NoRows
    /\ exitStatus = 0
    /\ dbSession = "none"
    /\ runs = 0

LifeIdle ==
    /\ simulator_task = None
    /\ taskPc = NoTasks
    /\ stopPc = "idle"
    /\ stopTask = None

\* no client, no subscription handle, no teardown in flight
RedisIdle ==
    /\ redis_client = {}
    /\ pubsub = {}
    /\ made = <<>>
    /\ closed = {}
    /\ closePc = "idle"

\* the sessions of the push server that are followed
Sids == {"sid1", "sid2"}

SocketIdle ==
    /\ connected_clients = {}
    /\ online = {}
    /\ connPc = [sid \in Sids |-> "idle"]

\* a JSON file of the storage directory: whether it exists, and the list it holds
File(rows) == [exists |-> TRUE, rows |-> rows]
MissingFile == [exists |-> FALSE, rows |-> <<>>]
NoFiles == [sectors |-> MissingFile, agents |-> MissingFile, discussions |-> MissingFile]
NoTrends == [s \in {} |-> 0]

PriceIdle ==
    /\ sector_trends = NoTrends
    /\ calls = 0

SvcIdle ==
    /\ RedisIdle
    /\ SocketIdle
    /\ storage = NoFiles
    /\ PriceIdle

SimInit ==
    /\ now \in StartTimes
    /\ dbSectors \in InitSectorTables
    /\ dbCandles \in InitCandleTables
    /\ peerKeys = {}
    /\ schedPc = "created"
    /\ iterations = 0
    /\ start_time = 0
    /\ bfPos = 0
    /\ next_run = 0
    /\ wakeAt = 0
    /\ timestamp = 0
    /\ sectors = NoObjects
    /\ genPc = IdleGen
    /\ faults = 0
    /\ sessions = {}
    /\ LifeIdle
    /\ SeedIdle
    /\ SvcIdle
    /\ last = Step("init")

(***************************************************************************)
(* The scheduler task: _scheduler_loop, _backfill_day_of_data,             *)
(* _update_all_sectors and the per-sector _generate_candle_for_sector.     *)
(* A step runs from one suspension of the task to the next.                *)
(***************************************************************************)
LoadedOrder == SelectSeq(SectorOrder, LAMBDA s : s \in DOMAIN sectors)
BackfillSteps == BackfillCandles * Len(LoadedOrder)
BackfillSector(pos) == LoadedOrder[(pos % Len(LoadedOrder)) + 1]
\* BackfillTimestampFixed is the faulty variant that never advances
BackfillTimestampFixed(pos) == start_time
BackfillTimestamp(pos) == start_time + (pos \div Len(LoadedOrder)) * FiveMinutes

\* asyncio.gather(*tasks, return_exceptions=True), line 226; ReturnExceptionsOff
\* is the faulty variant without the flag
ReturnExceptionsOff == FALSE
ReturnExceptions == TRUE

\* what the try of the while-loop catches (line 301: except Exception);
\* CatchesNothing is the faulty variant without the handler
CatchesNothing(exc) == FALSE
LoopCatches(exc) == exc = "Exception"

\* the environment raises at most MaxFaults exceptions
Raise(fault) ==
    /\ fault => faults < MaxFaults
    /\ faults' = IF fault THEN faults + 1 ELSE faults

\* A session is named by the operation that opened it: SessionLocal() of
\* _backfill_day_of_data (line 237), of _update_all_sectors (line 219), of one
\* sector's _generate_candle_for_sector (line 149), of a get_db (db.py line 36)
BackfillSession == <<"backfill", "">>
UpdateSession == <<"update", "">>
GenSession(s) == <<"gen", s>>
RequestSession == <<"get_db", "">>
SimulatorSessions == {BackfillSession, UpdateSession} \cup {GenSession(s) : s \in SectorIds}

\* db = SessionLocal()
Open(open, session) == open \cup {session}
\* finally: db.close(); CloseNothing is the faulty variant without the finally
CloseNothing(open, closing) == open
Close(open, closing) == open \ closing

\* the task ends with the exception that escaped it
\* TaskDiesRetries is the faulty variant in which the loop's handler also
\* covers the startup backfill
TaskDiesRetries ==
    /\ schedPc' = "retry_sleep"
    /\ genPc' = IdleGen
    /\ sectors' = NoObjects
TaskDies ==
    /\ schedPc' = "raised"
    /\ genPc' = IdleGen
    /\ sectors' = NoObjects

\* lines 301-304: an exception of the iteration reaches the handler at time t
IterationError(t) ==
    IF LoopCatches("Exception")
    THEN /\ schedPc' = "retry_sleep"
         /\ wakeAt' = t + RetryDelay
         /\ genPc' = IdleGen
         /\ sectors' = NoObjects
    ELSE /\ TaskDies
         /\ UNCHANGED wakeAt

\* lines 277-280 and 237-258: the task starts and runs the backfill's queries
TaskBegin ==
    /\ schedPc = "created"
    /\ \E fault \in {"none", "count", "sectors"} :
         /\ fault = "sectors" => dbCandles = {}
         /\ Raise(fault # "none")
         /\ IF fault # "none"
            THEN /\ TaskDies
                 /\ sessions' = Close(Open(sessions, BackfillSession), {BackfillSession})
                 /\ last' = Step("backfill_error")
                 /\ UNCHANGED <<start_time, bfPos>>
            ELSE IF Cardinality(dbCandles) > 0 \/ DOMAIN dbSectors = {}
            THEN /\ schedPc' = "loop_top"
                 /\ sessions' = Close(Open(sessions, BackfillSession), {BackfillSession})
                 /\ last' = [op |-> "backfill_skipped", candles |-> dbCandles,
                             loaded |-> DOMAIN dbSectors]
                 /\ UNCHANGED <<sectors, genPc, start_time, bfPos>>
            ELSE /\ schedPc' = "backfill"
                 /\ sessions' = Open(sessions, BackfillSession)
                 /\ sectors' = dbSectors
                 /\ start_time' = Round5(now - BackfillCandles * FiveMinutes)
                 /\ bfPos' = 0
                 /\ genPc' = [IdleGen EXCEPT ![SectorOrder[1]] = "ready"]
                 /\ last' = [op |-> "backfill_begin", candles |-> dbCandles,
                             loaded |-> DOMAIN dbSectors]
    /\ UNCHANGED <<now, dbVars, peerKeys, iterations, next_run, wakeAt,
                   timestamp, idleVars>>

\* lines 261-265: the backfill goes on to the next (i, sector), or returns;
\* objs are the Sector objects as the step leaves them, open the sessions that
\* are open when the generation ends
BackfillAdvance(objs, open) ==
    /\ bfPos' = bfPos + 1
    /\ IF bfPos + 1 = BackfillSteps
       THEN /\ schedPc' = "loop_top"
            /\ genPc' = IdleGen
            /\ sectors' = NoObjects
            /\ sessions' = Close(open, {GenSession(BackfillSector(bfPos)),
                                        BackfillSession})
       ELSE /\ genPc' = [IdleGen EXCEPT ![BackfillSector(bfPos + 1)] = "ready"]
            /\ sectors' = objs
            /\ sessions' = Close(open, {GenSession(BackfillSector(bfPos))})
            /\ UNCHANGED schedPc
    /\ UNCHANGED wakeAt

\* a sector task of the gather ended: with its result, or with an exception that
\* the gather keeps (return_exceptions) or raises in _update_all_sectors
ChildEnds(s, ok, objs, open) ==
    IF ok \/ ReturnExceptions
    THEN /\ genPc' = [genPc EXCEPT ![s] = IF ok THEN "done" ELSE "failed"]
         /\ sectors' = objs
         /\ sessions' = Close(open, {GenSession(s)})
         /\ UNCHANGED <<schedPc, wakeAt>>
    ELSE /\ IterationError(now)
         /\ sessions' = Close(open, {GenSession(s), UpdateSession})

\* _generate_candle_for_sector returned (ok) or raised (~ok), in the backfill or
\* in a tick
GenEnds(s, ok, objs, open) ==
    IF schedPc = "backfill"
    THEN BackfillAdvance(objs, open)
    ELSE /\ ChildEnds(s, ok, objs, open)
         /\ UNCHANGED bfPos

GenTimestamp == IF schedPc = "backfill" THEN BackfillTimestamp(bfPos) ELSE timestamp

\* lines 149-190: one sector's candle, up to the commit and the first await
GenerateCandle(s) ==
    /\ schedPc \in {"backfill", "gather"}
    /\ genPc[s] = "ready"
    /\ \E draw \in ChangeDraws, volume \in VolumeDraws, fault \in GenFaults :
         LET g    == Gen(dbCandles, sectors[s], s, GenTimestamp, draw, volume, fault)
             objs == [sectors EXCEPT ![s] = g.sector]
         IN  /\ Raise(fault # "none")
             /\ dbCandles' = g.db
             /\ last' = GenStep("task", s, GenTimestamp, fault, g)
             /\ IF g.ok
                THEN /\ genPc' = [genPc EXCEPT ![s] = "publish_candle"]
                     /\ sectors' = objs
                     /\ sessions' = Open(sessions, GenSession(s))
                     /\ UNCHANGED <<schedPc, wakeAt, bfPos>>
                ELSE GenEnds(s, FALSE, objs, Open(sessions, GenSession(s)))
    /\ UNCHANGED <<now, dbSectors, peerKeys, iterations, start_time, next_run,
                   timestamp, idleVars>>

\* line 210 after a publish has raised: db.rollback() discards what the
\* session has not committed, which after the commit of line 190 is nothing;
\* RollbackDropsRow is the faulty variant that takes the committed row back
RollbackDropsRow(db, s, ts) == {r \in db : ~(r.sectorId = s /\ r.timestamp = ts)}
RollbackAfterCommit(db, s, ts) == db

\* lines 193-205: both events carry new_price, the value line 184 has assigned
\* to the Sector object; PublishedValueOld is the faulty variant that carries
\* the price before the generation
PublishedValueOld(sector) == sector.currentPrice - sector.change
PublishedValue(sector) == sector.currentPrice

\* lines 193-199: the await of publish_sector_candle ends
PublishSectorCandle(s) ==
    /\ schedPc \in {"backfill", "gather"}
    /\ genPc[s] = "publish_candle"
    /\ \E result \in Outcomes :
         /\ Raise(result = "error")
         /\ last' = [op |-> "publish_candle", phase |-> schedPc, sector |-> s,
                      timestamp |-> GenTimestamp, ok |-> result = "ok",
                      value |-> PublishedValue(sectors[s])]
         /\ IF result = "ok"
            THEN /\ genPc' = [genPc EXCEPT ![s] = "publish_market"]
                 /\ UNCHANGED <<schedPc, wakeAt, bfPos, sectors, sessions>>
            ELSE GenEnds(s, FALSE, sectors, sessions)
         /\ dbCandles' = IF result = "ok" THEN dbCandles
                          ELSE RollbackAfterCommit(dbCandles, s, GenTimestamp)
    /\ UNCHANGED <<now, dbSectors, peerKeys, iterations, start_time, next_run,
                   timestamp, idleVars>>

\* lines 201-207: the await of publish_market_update ends
PublishMarketUpdate(s) ==
    /\ schedPc \in {"backfill", "gather"}
    /\ genPc[s] = "publish_market"
    /\ \E result \in Outcomes :
         /\ Raise(result = "error")
         /\ last' = [op |-> "publish_market", phase |-> schedPc, sector |-> s,
                      timestamp |-> GenTimestamp, ok |-> result = "ok",
                      value |-> PublishedValue(sectors[s])]
         /\ GenEnds(s, result = "ok", sectors, sessions)
         /\ dbCandles' = IF result = "ok" THEN dbCandles
                          ELSE RollbackAfterCommit(dbCandles, s, GenTimestamp)
    /\ UNCHANGED <<now, dbSectors, peerKeys, iterations, start_time, next_run,
                   timestamp, idleVars>>

\* lines 283-292: an iteration begins: next_run, and the sleep until it
LoopTop ==
    /\ schedPc = "loop_top"
    /\ iterations < MaxIterations
    /\ iterations' = iterations + 1
    /\ next_run' = Next5(now)
    /\ wakeAt' = Next5(now)
    /\ schedPc' = "sleep_until"
    /\ last' = [op |-> "loop_top",
                 resumed |-> last.op = "wake" /\ last.from = "retry_sleep"]
    /\ UNCHANGED <<now, dbVars, peerKeys, start_time, bfPos, timestamp,
                   sectors, genPc, faults, sessions, idleVars>>

\* lines 292-296 and 219-226: the sleep ends (at its deadline or later) and
\* _update_all_sectors runs up to the gather
UpdateAllSectors ==
    /\ schedPc = "sleep_until"
    /\ \E late \in Lateness, result \in Outcomes :
         LET t == Max(now, wakeAt) + late
         IN  /\ now' = t
             /\ Raise(result = "error")
             /\ IF result = "error"
                THEN /\ IterationError(t)
                     /\ sessions' = Close(Open(sessions, UpdateSession), {UpdateSession})
                     /\ last' = Step("update_error")
                     /\ UNCHANGED timestamp
                ELSE /\ sectors' = dbSectors
                     /\ sessions' = Open(sessions, UpdateSession)
                     /\ timestamp' = Next5(t)
                     /\ genPc' = [s \in SectorIds |->
                                    IF s \in DOMAIN dbSectors THEN "ready" ELSE "idle"]
                     /\ schedPc' = "gather"
                     /\ last' = [op |-> "update_begin", timestamp |-> Next5(t),
                                 previous |-> timestamp, woke |-> t,
                                 deadline |-> wakeAt]
                     /\ UNCHANGED wakeAt
    /\ UNCHANGED <<dbVars, peerKeys, iterations, start_time, bfPos, next_run,
                   idleVars>>

\* lines 226-229 and 299: every sector task ended, the gather returns its results,
\* the outer session is closed and the loop sleeps one second
GatherReturns ==
    /\ schedPc = "gather"
    /\ \A s \in DOMAIN sectors : genPc[s] \in {"done", "failed"}
    /\ schedPc' = "sleep_1"
    /\ wakeAt' = now + DriftDelay
    /\ genPc' = IdleGen
    /\ sectors' = NoObjects
    /\ sessions' = Close(sessions, {UpdateSession})
    /\ last' = [op |-> "gather_return", timestamp |-> timestamp,
                 results |-> [s \in DOMAIN sectors |-> genPc[s]]]
    /\ UNCHANGED <<now, dbVars, peerKeys, iterations, start_time, bfPos,
                   next_run, timestamp, faults, idleVars>>

\* lines 299 and 304: the one-second sleep or the retry sleep ends
SleepEnds ==
    /\ schedPc \in {"sleep_1", "retry_sleep"}
    /\ \E late \in Lateness :
         now' = Max(now, wakeAt) + late
    /\ schedPc' = "loop_top"
    /\ last' = [op |-> "wake", from |-> schedPc, deadline |-> wakeAt]
    /\ UNCHANGED <<dbVars, peerKeys, loopVars, sectors, genPc, faults, sessions,
                   idleVars>>

\* Task.cancel() by stop_market_simulator (line 332): it reaches the gather and
\* every sector task at once; nothing of the task runs afterwards but its
\* finally blocks, and its frames with their locals are gone
CancelTask ==
    /\ schedPc \notin {"cancelling", "cancelled", "raised"}
    /\ schedPc' = "cancelling"
    /\ genPc' = IdleGen
    /\ sectors' = NoObjects
    /\ iterations' = 0
    /\ start_time' = 0
    /\ bfPos' = 0
    /\ next_run' = 0
    /\ wakeAt' = 0
    /\ timestamp' = 0
    /\ last' = Step("cancel")
    /\ UNCHANGED <<now, dbVars, peerKeys, faults, sessions, idleVars>>

\* the CancelledError leaves the task: no handler of the task catches it, and
\* the finally blocks it passes (lines 213, 228, 269) close their sessions
TaskCancelled ==
    /\ schedPc = "cancelling"
    /\ schedPc' = "cancelled"
    /\ sessions' = Close(sessions, SimulatorSessions)
    /\ last' = [op |-> "task_cancelled", unwound |-> sessions \cap SimulatorSessions]
    /\ UNCHANGED <<now, dbVars, peerKeys, loopVars, sectors, genPc, faults,
                   idleVars>>

\* A tick of another live scheduler: it loads the sector afresh and generates
\* its candle for the next five-minute boundary, once per boundary.
PeerTick(p, s) ==
    /\ s \in DOMAIN dbSectors
    /\ <<p, s, Next5(now)>> \notin peerKeys
    /\ Cardinality(peerKeys) < MaxPeerTicks
    /\ \E draw \in ChangeDraws, volume \in VolumeDraws :
         LET g == Gen(dbCandles, dbSectors[s], s, Next5(now), draw, volume, "none")
         IN  /\ dbCandles' = g.db
             /\ last' = GenStep("peer", s, Next5(now), "none", g)
    /\ peerKeys' = peerKeys \cup {<<p, s, Next5(now)>>}
    /\ UNCHANGED <<now, dbSectors, schedPc, loopVars, sectors, genPc, faults,
                   sessions, idleVars>>

SimNext ==
    \/ TaskBegin
    \/ \E s \in SectorIds : GenerateCandle(s)
    \/ \E s \in SectorIds : PublishSectorCandle(s)
    \/ \E s \in SectorIds : PublishMarketUpdate(s)
    \/ LoopTop
    \/ UpdateAllSectors
    \/ GatherReturns
    \/ SleepEnds
    \/ CancelTask
    \/ TaskCancelled
    \/ \E p \in Peers, s \in SectorIds : PeerTick(p, s)

Spec == SimInit /\ [][SimNext]_vars

\* The scheduler task alone on its database; the event loop wakes a sleeping
\* task once its deadline has passed.
LoopNext ==
    \/ TaskBegin
    \/ \E s \in SectorIds : GenerateCandle(s)
    \/ \E s \in SectorIds : PublishSectorCandle(s)
    \/ \E s \in SectorIds : PublishMarketUpdate(s)
    \/ LoopTop
    \/ UpdateAllSectors
    \/ GatherReturns
    \/ SleepEnds
    \/ CancelTask
    \/ TaskCancelled

FairSpec == SimInit /\ [][LoopNext]_vars /\ WF_vars(SleepEnds)

(***************************************************************************)
(* Properties of the candle store and of one candle generation.            *)
(***************************************************************************)
TaskGen == last.op = "gen" /\ last.who = "task"
Tick == TaskGen /\ last.phase = "gather"

\* C1: the candle store holds at most one row per (sectorId, timestamp); a
\* generation that commits leaves exactly one row with its key, carrying the
\* generated value, and the number of rows grows by one for a new key and is
\* unchanged for a key that existed.
C1_OneRowPerKey ==
    /\ \A r, q \in dbCandles : SameKey(r, q) => r = q
    /\ (last.op = "gen" /\ last.fault = "none") =>
          /\ last.ok
          /\ {r \in dbCandles : r.sectorId = last.sector /\ r.timestamp = last.timestamp}
               = {CandleRow(last.timestamp, last.sector, last.price)}
          /\ Cardinality(dbCandles) = last.rows + (IF last.existed THEN 0 ELSE 1)

\* a candle was generated for a key that existed, and committed
C1_Witness == last.op = "gen" /\ last.existed /\ last.ok

\* C2 (as stated): after a tick of a sector that completes without error the
\* persisted sector row has the committed candle's value as currentPrice.
C2_PersistedSectorFollows ==
    (TaskGen /\ last.ok) => dbSectors[last.sector].currentPrice = last.price

\* the price a generation computes its change against
C3_OldPrice == IF last.pre > 0 THEN last.pre ELSE last.base

C4_CandlesCarryNextRun == Tick => last.timestamp = next_run

\* C5: in a tick, a sector whose generation raises (at the query, the commit
\* or a publish) becomes a failed result of the gather while the gather goes
\* on; when the gather returns every sector has ended, each sector that
\* succeeded has its candle of this tick committed, and _update_all_sectors
\* returns normally to the loop's one-second sleep.
C5_SiblingsUnaffected ==
    /\ (/\ last.op \in {"gen", "publish_candle", "publish_market"}
        /\ last.op = "gen" => last.who = "task"
        /\ last.phase = "gather"
        /\ ~last.ok) =>
            /\ schedPc = "gather"
            /\ genPc[last.sector] = "failed"
    /\ last.op = "gather_return" =>
            /\ schedPc = "sleep_1"
            /\ \A s \in DOMAIN last.results :
                  /\ last.results[s] \in {"done", "failed"}
                  /\ last.results[s] = "done" =>
                        \E r \in dbCandles :
                            r.sectorId = s /\ r.timestamp = last.timestamp

\* a gather returned with one sector failed and another one committed
C5_Witness ==
    /\ last.op = "gather_return"
    /\ \E s, r \in DOMAIN last.results :
          last.results[s] = "failed" /\ last.results[r] = "done"

C6_Safe ==
    /\ schedPc = "raised" => iterations = 0
    /\ last.op = "update_error" =>
          schedPc = "retry_sleep" /\ wakeAt = now + RetryDelay
    /\ (last.op = "wake" /\ last.from = "retry_sleep") =>
          schedPc = "loop_top" /\ now >= last.deadline

\* C6: once the loop is entered the task never ends with an exception; an
\* exception of an iteration puts the task to sleep for 60 seconds, after
\* which it is back at the top of the loop, unless it is cancelled.
C6_LoopSurvivesExceptions ==
    /\ []C6_Safe
    /\ (schedPc = "retry_sleep") ~> (schedPc \in {"loop_top", "cancelling"})

\* an iteration began after the 60-second wait that followed an exception
C6_Witness == last.op = "loop_top" /\ last.resumed

(***************************************************************************)
(* Properties of the startup backfill.                                     *)
(***************************************************************************)
\* the step that ended the last generation of the backfill
BackfillEnded ==
    /\ last.op \in {"gen", "publish_candle", "publish_market"}
    /\ last.phase = "backfill"
    /\ schedPc = "loop_top"

\* the timestamps of the backfill: BackfillCandles consecutive boundaries
BackfillStamps == {start_time + i * FiveMinutes : i \in 0..(BackfillCandles - 1)}

StampsOf(s) == {r.timestamp : r \in {x \in dbCandles : x.sectorId = s}}

\* what both readings of the claim share: the backfill runs if and only if no
\* candle row exists (and a sector does); a backfill that is skipped changes
\* no row
BackfillOnlyWhenEmpty ==
    /\ last.op = "backfill_skipped" =>
          /\ last.candles # {} \/ last.loaded = {}
          /\ dbCandles = last.candles
    /\ last.op = "backfill_begin" =>
          /\ last.candles = {}
          /\ last.loaded # {}
          /\ dbCandles = {}
          /\ start_time % FiveMinutes = 0

\* C23 (as stated): when no candle row exists every sector ends the backfill
\* with exactly the full series of consecutive five-minute candles, each
\* generated from the value of the one before it.
C23_BackfillFullSeries ==
    /\ BackfillOnlyWhenEmpty
    /\ BackfillEnded =>
          \A s \in SectorIds : StampsOf(s) = BackfillStamps
    /\ (TaskGen /\ last.phase = "backfill" /\ last.fault # "query"
          /\ last.timestamp > start_time) =>
          \E r \in dbCandles :
              /\ r.sectorId = last.sector
              /\ r.timestamp = last.timestamp - FiveMinutes
              /\ r.value = last.base

\* the rows of a sector before a timestamp, and the value a generation at that
\* timestamp starts from
EarlierRows(s, ts) == {r \in dbCandles : r.sectorId = s /\ r.timestamp < ts}
LatestValue(rows) ==
    (CHOOSE r \in rows : \A q \in rows : q.timestamp <= r.timestamp).value

\* C23 (amended): the backfill runs if and only if no candle row exists and a
\* sector does, and a skipped backfill changes no row.  A generation of the
\* backfill that raises before its commit is logged and passed over: when the
\* backfill ends every sector has candles only at the backfill's consecutive
\* five-minute timestamps, one for each generation that committed (all of
\* them when no exception was raised), and each was generated from the value
\* of the sector's latest candle before it, or from the sector's price when
\* there is none.
C23_BackfillFillsWhatCommits ==
    /\ BackfillOnlyWhenEmpty
    /\ BackfillEnded =>
          /\ \A s \in SectorIds : StampsOf(s) \subseteq BackfillStamps
          /\ Cardinality(dbCandles) >= BackfillCandles * Cardinality(SectorIds) - faults
          /\ faults = 0 => \A s \in SectorIds : StampsOf(s) = BackfillStamps
    /\ (TaskGen /\ last.phase = "backfill" /\ last.ok) =>
          /\ CandleRow(last.timestamp, last.sector, last.price) \in dbCandles
          /\ last.timestamp \in BackfillStamps
          /\ last.base =
               IF EarlierRows(last.sector, last.timestamp) # {}
               THEN LatestValue(EarlierRows(last.sector, last.timestamp))
               ELSE IF last.pre > 0 THEN last.pre ELSE DefaultBasePrice

\* a backfill ended in which one generation raised at its commit: a sector is
\* left with less than the full series
C23_Witness ==
    /\ BackfillEnded
    /\ faults > 0
    /\ \E s \in SectorIds : StampsOf(s) # BackfillStamps /\ StampsOf(s) # {}

(***************************************************************************)
(* Properties of the events of one candle generation.                      *)
(***************************************************************************)
Publishing == last.op \in {"publish_candle", "publish_market"}

\* the events of a sector still to be published by the generation under way
PendingEvents(s) == genPc[s] \in {"publish_candle", "publish_market"}

\* C24: an event of a sector is published only after the commit of that
\* sector's candle has succeeded; the market-update event is published only
\* after the sector-candle event has been; both carry the value and the
\* timestamp of the committed candle; a generation that fails before its
\* commit publishes nothing.
C24_PublishAfterCommit ==
    /\ [](Publishing =>
            CandleRow(last.timestamp, last.sector, last.value) \in dbCandles)
    /\ []((TaskGen /\ ~last.ok) => ~PendingEvents(last.sector))
    /\ [][\A s \in SectorIds :
            /\ (PendingEvents(s)' /\ ~PendingEvents(s)) =>
                  /\ last'.op = "gen" /\ last'.who = "task" /\ last'.ok
                  /\ last'.sector = s
                  /\ genPc'[s] = "publish_candle"
            /\ (genPc'[s] = "publish_market" /\ genPc[s] # "publish_market") =>
                  /\ genPc[s] = "publish_candle"
                  /\ last'.op = "publish_candle" /\ last'.ok
                  /\ last'.sector = s
            /\ (last' # last /\ last'.op = "publish_candle" /\ last'.sector = s) =>
                  genPc[s] = "publish_candle"
            /\ (last' # last /\ last'.op = "publish_market" /\ last'.sector = s) =>
                  genPc[s] = "publish_market"]_vars

\* a tick in which both events of a sector have been published
C24_Witness ==
    /\ last.op = "publish_market"
    /\ last.ok
    /\ last.phase = "gather"
    /\ CandleRow(timestamp, last.sector, last.value) \in dbCandles

\* the candle store holds a row with this key
HasCandle(db, s, ts) == \E r \in db : r.sectorId = s /\ r.timestamp = ts

\* C28: when a publish call raises after the commit, the candle row of that
\* generation is still in the store, the generation's session is closed and
\* the exception leaves the generation (its task of the gather has failed,
\* the backfill has passed on); no step of a scheduler removes a row of the
\* candle store.
C28_CommittedCandleStays ==
    /\ []((Publishing /\ ~last.ok) =>
            /\ HasCandle(dbCandles, last.sector, last.timestamp)
            /\ GenSession(last.sector) \notin sessions
            /\ genPc[last.sector] # "publish_market"
            /\ last.phase = "gather" => genPc[last.sector] = "failed")
    /\ [][\A r \in dbCandles : HasCandle(dbCandles', r.sectorId, r.timestamp)]_vars

\* a publish raised in a tick after the candle was committed
C28_Witness ==
    /\ Publishing
    /\ ~last.ok
    /\ last.phase = "gather"
    /\ CandleRow(last.timestamp, last.sector, last.value) \in dbCandles

\* C27: an exception of the candle-count query or of the sector query of the
\* startup backfill ends the scheduler task: there is no 60-second wait and
\* the task takes no further step, so it generates no tick.  An exception of
\* one generation inside the backfill is caught: the backfill goes on with
\* the next generation, or is over, and the task lives.
C27_BackfillErrorEndsTask ==
    /\ last.op = "backfill_error" =>
          /\ schedPc = "raised"
          /\ dbCandles = {} \/ dbCandles \in InitCandleTables
    /\ schedPc = "raised" =>
          /\ iterations = 0
          /\ wakeAt = 0
          /\ timestamp = 0
          /\ genPc = IdleGen
          /\ ~ENABLED LoopNext
    /\ ((TaskGen \/ Publishing) /\ last.phase = "backfill" /\ ~last.ok) =>
          /\ schedPc \in {"backfill", "loop_top"}
          /\ schedPc = "backfill" =>
                /\ genPc[BackfillSector(bfPos)] = "ready"
                /\ <<BackfillSector(bfPos), BackfillTimestamp(bfPos)>>
                      # <<last.sector, last.timestamp>>

\* the task ended with the exception of a query of the startup backfill
C27_Witness ==
    /\ last.op = "backfill_error"
    /\ schedPc = "raised"
    /\ faults = 1

(***************************************************************************)
(* The clock.  Time passes while the task sleeps, beyond what the sleep     *)
(* asked for: the event loop was busy, or the process was stopped.  A      *)
(* sleep may so end after its deadline, and past a five-minute boundary.   *)
(***************************************************************************)
\* the clock is followed up to this time
MaxClock == 1300
ClockSteps == {293, 300}

ClockAdvances ==
    /\ schedPc \in {"sleep_until", "sleep_1", "retry_sleep"}
    /\ \E d \in ClockSteps :
         /\ now + d <= MaxClock
         /\ now' = now + d
    /\ UNCHANGED <<dbVars, peerKeys, schedPc, loopVars, sectors, genPc, faults,
                   sessions, idleVars, last>>

ClockNext ==
    \/ LoopNext
    \/ ClockAdvances

ClockSpec == SimInit /\ [][ClockNext]_vars

\* C22: the timestamp an iteration uses for its candles is a whole multiple
\* of five minutes and strictly greater than the timestamp of the iteration
\* before it (0 when there was none), hence than that of every earlier
\* iteration, also when iterations between them failed; the candles of the
\* iteration carry it.
C22_TimestampsIncrease ==
    /\ last.op = "update_begin" =>
          /\ last.timestamp > last.previous
          /\ last.timestamp % FiveMinutes = 0
          /\ timestamp = last.timestamp
    /\ Tick => last.timestamp = timestamp /\ timestamp % FiveMinutes = 0
    /\ timestamp % FiveMinutes = 0

\* an iteration that follows a failed one and an earlier one that generated
\* candles: it woke late, past a boundary
C22_Witness ==
    /\ last.op = "update_begin"
    /\ last.previous > 0
    /\ last.woke > last.deadline
    /\ last.timestamp > last.previous + FiveMinutes

(***************************************************************************)
(* Database sessions (backend/app/core/db.py and the SessionLocal() calls  *)
(* of the simulator).  A request that depends on get_db holds its session  *)
(* from the yield until the request ends: the handler returned, raised, or *)
(* was cancelled; the generator's finally runs in each case.               *)
(***************************************************************************)
RequestEnds == {"return", "raise", "cancel"}

\* get_db, lines 36-38: the session is opened and yielded
GetDbYields ==
    /\ RequestSession \notin sessions
    /\ sessions' = Open(sessions, RequestSession)
    /\ last' = Step("get_db")
    /\ UNCHANGED <<now, dbVars, peerKeys, schedPc, loopVars, sectors, genPc, faults,
                   idleVars>>

\* get_db, lines 39-40: the request ends and the generator is finalised
GetDbFinally ==
    /\ RequestSession \in sessions
    /\ \E outcome \in RequestEnds :
         last' = [op |-> "get_db_end", outcome |-> outcome]
    /\ sessions' = Close(sessions, {RequestSession})
    /\ UNCHANGED <<now, dbVars, peerKeys, schedPc, loopVars, sectors, genPc, faults,
                   idleVars>>

SessionNext ==
    \/ LoopNext
    \/ GetDbYields
    \/ GetDbFinally

\* the scheduler task and the requests of the application, on one database
SessionSpec == SimInit /\ [][SessionNext]_vars

\* the sessions the suspended operations of the scheduler task hold
HeldSessions ==
    (IF schedPc = "backfill" THEN {BackfillSession} ELSE {})
    \cup (IF schedPc = "gather" THEN {UpdateSession} ELSE {})
    \cup {GenSession(s) : s \in {x \in SectorIds :
                                   genPc[x] \in {"publish_candle", "publish_market"}}}

\* C21: a session is open only while the operation that opened it is in
\* progress: the backfill's during the backfill, _update_all_sectors' during
\* its gather, a sector's between its commit and the end of its publishes,
\* a request's until the request ends; a generation that raised, a cancelled
\* task and an ended request leave no session of theirs open, and between two
\* ticks (the loop's top and its sleeps) no session of the simulator is open.
C21_SessionsClosed ==
    /\ schedPc # "cancelling" => sessions \cap SimulatorSessions = HeldSessions
    /\ schedPc \in {"loop_top", "sleep_until", "sleep_1", "retry_sleep",
                    "cancelled", "raised"} =>
          sessions \cap SimulatorSessions = {}
    /\ (last.op \in {"gen", "publish_candle", "publish_market"} /\ ~last.ok) =>
          GenSession(last.sector) \notin sessions
    /\ last.op = "publish_market" => GenSession(last.sector) \notin sessions
    /\ last.op \in {"backfill_error", "backfill_skipped", "update_error"} =>
          sessions \cap SimulatorSessions = {}
    /\ last.op = "get_db_end" => RequestSession \notin sessions

\* a task was cancelled while a sector's publish was awaited in a tick: the
\* sessions of the sector and of _update_all_sectors were open and are closed
C21_Witness ==
    /\ last.op = "task_cancelled"
    /\ UpdateSession \in last.unwound
    /\ \E s \in SectorIds : GenSession(s) \in last.unwound
    /\ sessions \cap SimulatorSessions = {}

(***************************************************************************)
(* start_market_simulator and stop_market_simulator (lines 307-338).  The  *)
(* scheduler tasks are followed by what the two functions see of them:     *)
(* created, running, cancellation requested, ended cancelled, ended with   *)
(* the exception that escaped the startup backfill.                        *)
(***************************************************************************)
SimIdle ==
    /\ now = 0
    /\ dbSectors = NoObjects
    /\ dbCandles = {}
    /\ peerKeys = {}
    /\ schedPc = "idle"
    /\ iterations = 0
    /\ start_time = 0
    /\ bfPos = 0
    /\ next_run = 0
    /\ wakeAt = 0
    /\ timestamp = 0
    /\ sectors = NoObjects
    /\ genPc = IdleGen
    /\ faults = 0
    /\ sessions = {}

LifeInit ==
    /\ SimIdle
    /\ LifeIdle
    /\ SeedIdle
    /\ SvcIdle
    /\ last = Step("init")

\* Task.done()
Done(t) == taskPc[t] \in {"cancelled", "raised"}

\* lines 318 and 330: _simulator_task is not None and not _simulator_task.done()
IsRunning(handle) == handle # None /\ ~Done(handle)

\* line 334: await _simulator_task resumes once the task is done;
\* AwaitCompletedAtOnce is the faulty variant that does not wait
AwaitCompletedAtOnce(t) == TRUE
AwaitCompleted(t) == Done(t)

\* lines 310-323
StartMarketSimulator ==
    /\ IF ~ENABLE_MARKET_SIMULATOR \/ IsRunning(simulator_task)
       THEN /\ last' = [op |-> "start_noop", handle |-> simulator_task]
            /\ UNCHANGED <<simulator_task, taskPc>>
       ELSE LET t == Cardinality(DOMAIN taskPc) + 1
            IN  /\ t <= MaxTasks
                /\ taskPc' = [u \in DOMAIN taskPc \cup {t} |->
                                IF u = t THEN "created" ELSE taskPc[u]]
                /\ simulator_task' = t
                /\ last' = [op |-> "start", task |-> t]
    /\ UNCHANGED <<stopPc, stopTask, simVars, seedVars, svcVars>>

\* lines 326-334: the call, up to its await
StopMarketSimulator ==
    /\ stopPc = "idle"
    /\ IF IsRunning(simulator_task)
       THEN /\ taskPc' = [taskPc EXCEPT ![simulator_task] = "cancelling"]
            /\ stopPc' = "awaiting"
            /\ stopTask' = simulator_task
            /\ last' = [op |-> "stop_cancel", task |-> simulator_task]
       ELSE /\ last' = [op |-> "stop_noop", handle |-> simulator_task,
                        tasks |-> taskPc]
            /\ UNCHANGED <<taskPc, stopPc, stopTask>>
    /\ UNCHANGED <<simulator_task, simVars, seedVars, svcVars>>

\* lines 334-338: the await ends, the handle is cleared, the call returns
StopReturn ==
    /\ stopPc = "awaiting"
    /\ AwaitCompleted(stopTask)
    /\ simulator_task' = None
    /\ stopPc' = "idle"
    /\ stopTask' = None
    /\ last' = [op |-> "stop_return", task |-> stopTask]
    /\ UNCHANGED <<taskPc, simVars, seedVars, svcVars>>

\* the event loop runs the task for the first time (TaskBegin in the task's
\* own steps)
TaskStarts(t) ==
    /\ t \in DOMAIN taskPc
    /\ taskPc[t] = "created"
    /\ taskPc' = [taskPc EXCEPT ![t] = "running"]
    /\ last' = [op |-> "task_start", task |-> t]
    /\ UNCHANGED <<simulator_task, stopPc, stopTask, simVars, seedVars, svcVars>>

\* the CancelledError has unwound the task (TaskCancelled in the task's own steps)
TaskEndsCancelled(t) ==
    /\ t \in DOMAIN taskPc
    /\ taskPc[t] = "cancelling"
    /\ taskPc' = [taskPc EXCEPT ![t] = "cancelled"]
    /\ last' = [op |-> "task_end", task |-> t]
    /\ UNCHANGED <<simulator_task, stopPc, stopTask, simVars, seedVars, svcVars>>

\* an exception escaped the task's startup backfill (TaskBegin)
TaskEndsRaised(t) ==
    /\ t \in DOMAIN taskPc
    /\ taskPc[t] = "running"
    /\ taskPc' = [taskPc EXCEPT ![t] = "raised"]
    /\ last' = [op |-> "task_end", task |-> t]
    /\ UNCHANGED <<simulator_task, stopPc, stopTask, simVars, seedVars, svcVars>>

LifeNext ==
    \/ StartMarketSimulator
    \/ StopMarketSimulator
    \/ StopReturn
    \/ \E t \in 1..MaxTasks : TaskStarts(t)
    \/ \E t \in 1..MaxTasks : TaskEndsCancelled(t)
    \/ \E t \in 1..MaxTasks : TaskEndsRaised(t)

LifeSpec == LifeInit /\ [][LifeNext]_vars

\* C7: a stop that finds a running task requests its cancellation and waits:
\* while it waits and the task is not done the handle still names the task;
\* when it returns the task is done and the handle is None; a stop that
\* finds no running task changes neither the handle nor any task.
C7_StopWaitsThenClears ==
    /\ last.op = "stop_cancel" =>
          /\ taskPc[last.task] = "cancelling"
          /\ stopPc = "awaiting" /\ stopTask = last.task
    /\ (stopPc = "awaiting" /\ ~Done(stopTask)) =>
          /\ taskPc[stopTask] = "cancelling"
          /\ simulator_task = stopTask
    /\ last.op = "stop_return" =>
          /\ Done(last.task)
          /\ simulator_task = None
          /\ stopPc = "idle"
    /\ last.op = "stop_noop" =>
          /\ ~IsRunning(last.handle)
          /\ simulator_task = last.handle
          /\ taskPc = last.tasks
          /\ stopPc = "idle"

\* a stop returned after it had cancelled a running task
C7_Witness == last.op = "stop_return" /\ taskPc[last.task] = "cancelled"

\* a scheduler task that has been created and is not done
Alive(t) == t \in DOMAIN taskPc /\ ~Done(t)
LiveTasks == {t \in DOMAIN taskPc : Alive(t)}

\* C25: under every interleaving of start and stop calls with the steps of
\* the tasks, at most one scheduler task is alive, and a task that is alive is
\* the one the handle _simulator_task references.
C25_OneLiveTask ==
    /\ Cardinality(LiveTasks) <= 1
    /\ \A t \in LiveTasks : simulator_task = t

(***************************************************************************)
(* The seed command: main of backend/app/seed/__main__.py and run_seed,    *)
(* seed_sectors, seed_agents, seed_discussions, seed_candles of            *)
(* backend/app/seed/seed_data.py.  The command is synchronous: its steps   *)
(* follow the program's order, and a step ends at a commit or a flush.     *)
(***************************************************************************)
\* bounds: a discussion per sector (3 in the source), a day of seeded candles
\* (7), points per day (288), runs of the command
DiscussionsPerSector == 1
SeedDays == 1
PointsPerDay == 2
MaxSeedRuns == 2

\* seed_agents' agents_per_sector and the seconds of a day
AgentsPerSector == 5
DaySeconds == 86400

\* the random draws: a random.randint(3, 8) below and one above the number of
\* agents of a sector, one price and two changes for the sectors, the walk's
\* noise
NumMessagesRange == 3..8
NumMessagesDraws == {4, 8}
SeedPrices == {50000}
SeedChanges == {-2000, 2000}
SeedVolumes == {100000}
SeedNoise == {0}

SeedStages == <<"sectors", "agents", "discussions", "candles">>

AgentRow(run, s, i) == [id |-> <<run, s, i>>, sectorId |-> s]
DiscussionRow(run, s, i) == [id |-> <<run, s, i>>, sectorId |-> s]
MessageRow(d, j, a) == [id |-> <<d, j>>, discussionId |-> d, agentId |-> a]

\* generate_line_data (lines 65-93): the multiplier is per mille, the noise in
\* hundredths of a percent of the current value
TrendMultiplier(trend) ==
    IF trend = "up" THEN 1001 ELSE IF trend = "down" THEN 999 ELSE 1000

RECURSIVE LineWalk(_, _, _, _, _)
LineWalk(current, base_price, n, multiplier, noise) ==
    IF n = 0 THEN <<>>
    ELSE LET next == (current * multiplier) \div 1000 + (noise * current) \div 10000
         IN  <<Max(next, base_price \div 2)>>
                 \o LineWalk(next, base_price, n - 1, multiplier, noise)

GenerateLineData(base_price, points, trend, noise) ==
    <<base_price>> \o LineWalk(base_price, base_price, points - 1,
                               TrendMultiplier(trend), noise)

\* seed_candles, lines 313-319
SeedTrend(sector) ==
    IF sector.changePercent > 200 THEN "up"
    ELSE IF sector.changePercent < -200 THEN "down"
    ELSE "neutral"

\* seed_candles, lines 309-337: the candles of one sector
SeedCandlesOf(s, sector, noise) ==
    LET current_time == now - SeedDays * DaySeconds
        interval     == DaySeconds \div PointsPerDay
        prices       == GenerateLineData(sector.currentPrice, PointsPerDay,
                                         SeedTrend(sector), noise)
    IN  {CandleRow(current_time + day * DaySeconds + i * interval, s, prices[i + 1]) :
            day \in 0..(SeedDays - 1), i \in 0..(PointsPerDay - 1)}

\* random.sample(population, k): any k of the population, in the order the
\* messages are written; SamplesOfAnySize is the faulty variant that ignores k
SamplesOfAnySize(population, k) == SUBSET population \ {{}}
Samples(population, k) == {S \in SUBSET population : Cardinality(S) = k}

RECURSIVE Listed(_)
Listed(S) ==
    IF S = {} THEN <<>>
    ELSE LET a == CHOOSE x \in S : TRUE IN <<a>> \o Listed(S \ {a})

\* run_seed, lines 351-355: the idempotency check; SkipSeedNever is the faulty
\* variant without it
SkipSeedNever(existing_sectors, forced) == FALSE
SkipSeedWhenForced(existing_sectors, forced) == existing_sectors /\ forced
SkipSeed(existing_sectors, forced) == existing_sectors /\ ~forced

\* db.rollback() of the command's handler (line 40): the session drops what it
\* holds; RollbackKeeps is the faulty variant that keeps it
RollbackKeeps(held) == held
Rollback(held) == NoRows

StageRaised(stage) == [op |-> "stage_raised", stage |-> stage]
StageCommitted(stage) == [op |-> "stage_committed", stage |-> stage]

SeedInit ==
    /\ SimIdle
    /\ LifeIdle
    /\ SeedIdle
    /\ SvcIdle
    /\ last = Step("init")

\* main, lines 22-37: the arguments are parsed, the session is opened
CliMain ==
    /\ seedPc \in {"idle", "exited"}
    /\ runs < MaxSeedRuns
    /\ runs' = runs + 1
    /\ \E f \in BOOLEAN : force' = f
    /\ dbSession' = "open"
    /\ before' = Tables
    /\ seedPc' = "check"
    /\ seedPos' = 0
    /\ last' = Step("cli_main")
    /\ UNCHANGED <<simVars, svcVars, lifeVars, seedTables, pending, exitStatus>>

\* run_seed, lines 351-355
RunSeedCheck ==
    /\ seedPc = "check"
    /\ \E fault \in BOOLEAN :
         IF fault
         THEN seedPc' = "except" /\ last' = StageRaised("check")
         ELSE IF SkipSeed(DOMAIN dbSectors # {}, force)
         THEN seedPc' = "return" /\ last' = Step("seed_skipped")
         ELSE seedPc' = "sectors" /\ last' = Step("seed_begins")
    /\ UNCHANGED <<simVars, svcVars, lifeVars, seedTables, seedPos, force, pending, before,
                   exitStatus, dbSession, runs>>

\* seed_sectors, lines 153-176; the commit fails on a fault of the database or
\* on a sector id that exists (primary key of sectors)
SeedSectors ==
    /\ seedPc = "sectors"
    /\ \E price \in SeedPrices, change \in SeedChanges, volume \in SeedVolumes,
          fault \in BOOLEAN :
         LET rows == [s \in SectorIds |->
                        SectorRow(price, change, (change * 10000) \div price, volume)]
         IN  IF fault \/ DOMAIN dbSectors \cap DOMAIN rows # {}
             THEN /\ pending' = [pending EXCEPT !.sectors = rows]
                  /\ seedPc' = "except"
                  /\ last' = StageRaised("sectors")
                  /\ UNCHANGED dbSectors
             ELSE /\ dbSectors' = [s \in DOMAIN dbSectors \cup DOMAIN rows |->
                                     IF s \in DOMAIN rows THEN rows[s] ELSE dbSectors[s]]
                  /\ seedPc' = "agents"
                  /\ last' = StageCommitted("sectors")
                  /\ UNCHANGED pending
    /\ UNCHANGED <<now, dbCandles, peerKeys, schedPc, loopVars, sectors, genPc, faults,
                   sessions, svcVars, lifeVars, seedTables, seedPos, force, before, exitStatus,
                   dbSession, runs>>

\* seed_agents, lines 191-214
SeedAgents ==
    /\ seedPc = "agents"
    /\ \E fault \in BOOLEAN :
         LET rows == {AgentRow(runs, s, i) : s \in SectorIds, i \in 1..AgentsPerSector}
         IN  IF fault
             THEN /\ pending' = [pending EXCEPT !.agents = rows]
                  /\ seedPc' = "except"
                  /\ last' = StageRaised("agents")
                  /\ UNCHANGED dbAgents
             ELSE /\ dbAgents' = dbAgents \cup rows
                  /\ seedPc' = "discussions"
                  /\ last' = StageCommitted("agents")
                  /\ UNCHANGED pending
    /\ UNCHANGED <<simVars, svcVars, lifeVars, dbDiscussions, dbMessages, dbLinks, seedPos, force,
                   before, exitStatus, dbSession, runs>>

\* seed_discussions: the (sector, i) of a position of the loops of lines 244-249
DiscussionSteps == Len(SectorOrder) * DiscussionsPerSector
DiscussionSector(pos) == SectorOrder[(pos \div DiscussionsPerSector) + 1]

\* lines 237-242 and 245: the agents of this run that belong to the sector
SectorAgents(s) == {a \in dbAgents : a.id[1] = runs /\ a.sectorId = s}

\* seed_discussions, lines 249-288: one discussion, its flush, its messages
\* and its participants
SeedDiscussion ==
    /\ seedPc = "discussions"
    /\ seedPos < DiscussionSteps
    /\ \E num_messages \in NumMessagesDraws, fault \in BOOLEAN :
         LET s == DiscussionSector(seedPos)
             sector_agents == SectorAgents(s)
             discussion == DiscussionRow(runs, s, seedPos % DiscussionsPerSector)
             k == Min(num_messages, Cardinality(sector_agents))
         IN  \E selected \in Samples(sector_agents, k) :
               LET selected_agents == Listed(selected)
                   held == [pending EXCEPT !.discussions = @ \cup {discussion}]
               IN  IF fault
                   THEN /\ pending' = held
                        /\ seedPc' = "except"
                        /\ last' = StageRaised("discussions")
                        /\ UNCHANGED seedPos
                   ELSE /\ pending' =
                             [held EXCEPT
                                !.messages = @ \cup
                                    {MessageRow(discussion.id, j, selected_agents[j].id) :
                                        j \in 1..Len(selected_agents)},
                                !.links = @ \cup
                                    {<<discussion.id, a.id>> : a \in selected}]
                        /\ seedPos' = seedPos + 1
                        /\ last' = [op |-> "seed_discussion", id |-> discussion.id,
                                    n |-> num_messages,
                                    agents |-> Cardinality(sector_agents)]
                        /\ UNCHANGED seedPc
    /\ UNCHANGED <<simVars, svcVars, lifeVars, seedTables, force, before, exitStatus,
                   dbSession, runs>>

\* seed_discussions, line 290: the commit of the stage
SeedDiscussionsCommit ==
    /\ seedPc = "discussions"
    /\ seedPos = DiscussionSteps
    /\ \E fault \in BOOLEAN :
         IF fault
         THEN /\ seedPc' = "except"
              /\ last' = StageRaised("discussions")
              /\ UNCHANGED <<seedTables, pending>>
         ELSE /\ dbDiscussions' = dbDiscussions \cup pending.discussions
              /\ dbMessages' = dbMessages \cup pending.messages
              /\ dbLinks' = dbLinks \cup pending.links
              /\ pending' = NoRows
              /\ seedPc' = "candles"
              /\ last' = StageCommitted("discussions")
              /\ UNCHANGED dbAgents
    /\ UNCHANGED <<simVars, svcVars, lifeVars, seedPos, force, before, exitStatus,
                   dbSession, runs>>

\* seed_candles, lines 309-339; the commit fails on a fault of the database or
\* on a (timestamp, sectorId) that exists
SeedCandles ==
    /\ seedPc = "candles"
    /\ \E noise \in SeedNoise, fault \in BOOLEAN :
         LET rows == UNION {SeedCandlesOf(s, dbSectors[s], noise) : s \in SectorIds}
         IN  IF fault \/ \E r \in rows, q \in dbCandles : SameKey(r, q)
             THEN /\ pending' = [pending EXCEPT !.candles = rows]
                  /\ seedPc' = "except"
                  /\ last' = StageRaised("candles")
                  /\ UNCHANGED dbCandles
             ELSE /\ dbCandles' = dbCandles \cup rows
                  /\ seedPc' = "return"
                  /\ last' = StageCommitted("candles")
                  /\ UNCHANGED pending
    /\ UNCHANGED <<now, dbSectors, peerKeys, schedPc, loopVars, sectors, genPc, faults,
                   sessions, svcVars, lifeVars, seedTables, seedPos, force, before, exitStatus,
                   dbSession, runs>>

\* main, lines 37 and 42-43: run_seed returned, the session is closed
CliReturns ==
    /\ seedPc = "return"
    /\ seedPc' = "exited"
    /\ exitStatus' = 0
    /\ dbSession' = "closed"
    /\ last' = [op |-> "cli_exit", status |-> 0, stage |-> "none"]
    /\ UNCHANGED <<simVars, svcVars, lifeVars, seedTables, seedPos, force, pending, before, runs>>

\* main, lines 38-43: run_seed raised; rollback, exit status 1, close
CliExcept ==
    /\ seedPc = "except"
    /\ pending' = Rollback(pending)
    /\ seedPc' = "exited"
    /\ exitStatus' = 1
    /\ dbSession' = "closed"
    /\ last' = [op |-> "cli_exit", status |-> 1, stage |-> last.stage]
    /\ UNCHANGED <<simVars, svcVars, lifeVars, seedTables, seedPos, force, before, runs>>

SeedNext ==
    \/ CliMain
    \/ RunSeedCheck
    \/ SeedSectors
    \/ SeedAgents
    \/ SeedDiscussion
    \/ SeedDiscussionsCommit
    \/ SeedCandles
    \/ CliReturns
    \/ CliExcept

SeedSpec == SeedInit /\ [][SeedNext]_vars

(***************************************************************************)
(* Properties of the seed command.                                         *)
(***************************************************************************)
\* the running (or last) command was started without --force on a database
\* that held a sector row
UnforcedOnSeeded == dbSession # "none" /\ ~force /\ DOMAIN before.sectors # {}

\* C8: run_seed without force on a database that holds a sector row inserts
\* nothing (no table changes, the session holds nothing) and returns normally:
\* it never reaches a stage, and the command exits with status 0 unless the
\* existence query itself raised.
C8_UnforcedSeedIsNoOp ==
    UnforcedOnSeeded =>
        /\ Tables = before
        /\ pending = NoRows
        /\ seedPc \in {"check", "return", "except", "exited"}
        /\ seedPc = "except" => last.stage = "check"
        /\ seedPc = "exited" => (exitStatus = 0 \/ last.stage = "check")

\* a second run without force, after a run that seeded, has returned
C8_Witness ==
    /\ UnforcedOnSeeded
    /\ runs = 2
    /\ dbCandles # {}
    /\ seedPc = "exited"
    /\ exitStatus = 0

StageIndex(stage) == CHOOSE i \in 0..Len(SeedStages) : stage = (<<"check">> \o SeedStages)[i + 1]

\* the running command has persisted rows of the stage
Persisted(stage) ==
    IF stage = "sectors" THEN dbSectors # before.sectors
    ELSE IF stage = "agents" THEN dbAgents # before.agents
    ELSE IF stage = "discussions"
         THEN \/ dbDiscussions # before.discussions
              \/ dbMessages # before.messages
              \/ dbLinks # before.links
    ELSE dbCandles # before.candles

\* every stage before position k has persisted its rows, no stage from k on has
PersistedUpTo(k) ==
    \A i \in 1..Len(SeedStages) : Persisted(SeedStages[i]) <=> i < k

\* C9: the stages run in the order sectors, agents, discussions, candles and
\* each has committed before the next begins; when a stage raises, the rows
\* of the stages before it are persisted and none of it or of a later stage;
\* the command then rolls back, closes the session and exits with status 1.
C9_StagesCommitInOrder ==
    /\ seedPc \in {"sectors", "agents", "discussions", "candles"} =>
          /\ PersistedUpTo(StageIndex(seedPc))
          /\ seedPos = 0 => pending = NoRows
    /\ last.op = "stage_committed" =>
          /\ PersistedUpTo(StageIndex(last.stage) + 1)
          /\ pending = NoRows
    /\ last.op = "stage_raised" =>
          /\ seedPc = "except"
          /\ PersistedUpTo(StageIndex(last.stage))
    /\ (last.op = "cli_exit" /\ last.status = 1) =>
          /\ PersistedUpTo(StageIndex(last.stage))
          /\ pending = NoRows
          /\ dbSession = "closed"
          /\ exitStatus = 1
          /\ seedPc = "exited"

\* the discussions stage raised after the sectors and the agents were
\* committed, and the command has exited
C9_Witness ==
    /\ last.op = "cli_exit" /\ last.status = 1 /\ last.stage = "discussions"
    /\ dbAgents # {}
    /\ dbDiscussions = {}

\* the tables as a run that raised after its sectors stage leaves them:
\* sectors are there, a later stage's rows are not
Incomplete(tables) ==
    /\ DOMAIN tables.sectors # {}
    /\ tables.agents = {} \/ tables.discussions = {} \/ tables.candles = {}

\* C30: after a seed run that raised in a stage later than the sectors stage
\* the sector rows are persisted, and a later run without force is a no-op:
\* it reaches no stage, changes no table and returns normally, so the stages
\* that were not completed stay unfilled.
C30_UnforcedRerunFillsNothing ==
    /\ (last.op = "cli_exit" /\ last.status = 1 /\ StageIndex(last.stage) > 1
          /\ DOMAIN before.sectors = {}) =>
          Incomplete(Tables)
    /\ (UnforcedOnSeeded /\ Incomplete(before)) =>
          /\ Tables = before
          /\ Incomplete(Tables)
          /\ pending = NoRows
          /\ seedPc \in {"check", "return", "except", "exited"}
          /\ (seedPc = "exited" /\ last.stage # "check") => exitStatus = 0

\* a run without force has returned normally on the tables a run that raised
\* in the candles stage had left
C30_Witness ==
    /\ UnforcedOnSeeded
    /\ runs = 2
    /\ seedPc = "exited"
    /\ exitStatus = 0
    /\ dbAgents # {}
    /\ dbDiscussions # {}
    /\ dbCandles = {}

MessagesOf(d) == {m \in dbMessages : m.discussionId = d.id}
ParticipantsOf(d) == {l[2] : l \in {x \in dbLinks : x[1] = d.id}}
AgentsOfSector(s) == {a \in dbAgents : a.sectorId = s}

\* C10: for every seeded discussion, every message's agentId is one of the
\* discussion's participants, every participant is an agent of the
\* discussion's sector and wrote exactly one message, and the number of
\* messages is min(n, number of agents of the sector) for an n in 3..8: the n
\* that was drawn for the discussion.
C10_DiscussionLinkage ==
    /\ \A d \in dbDiscussions :
          /\ \A m \in MessagesOf(d) : m.agentId \in ParticipantsOf(d)
          /\ \A a \in ParticipantsOf(d) :
                /\ \E r \in AgentsOfSector(d.sectorId) : r.id = a
                /\ Cardinality({m \in MessagesOf(d) : m.agentId = a}) = 1
          /\ \E n \in NumMessagesRange :
                Cardinality(MessagesOf(d)) =
                    Min(n, Cardinality(AgentsOfSector(d.sectorId)))
    /\ last.op = "seed_discussion" =>
          /\ last.n \in NumMessagesRange
          /\ Cardinality({m \in pending.messages : m.discussionId = last.id})
                = Min(last.n, last.agents)
          /\ {m.agentId : m \in {x \in pending.messages : x.discussionId = last.id}}
                = {l[2] : l \in {x \in pending.links : x[1] = last.id}}

\* seeded discussions are committed: one with fewer messages than its sector
\* has agents, one with a message of every agent of its sector
C10_Witness ==
    /\ last.op = "stage_committed" /\ last.stage = "discussions"
    /\ \E d, e \in dbDiscussions :
          /\ Cardinality(MessagesOf(d)) < AgentsPerSector
          /\ Cardinality(MessagesOf(e)) = AgentsPerSector

(***************************************************************************)
(* The broker connection (backend/app/core/redis.py).  An Optional value   *)
(* is a set of at most one element: {} is None.  A client or subscription  *)
(* handle is its position in made, which records of each handle what it is *)
(* and, for a subscription handle, the client whose pubsub() made it.      *)
(* get_redis and get_pubsub run without suspending; close_redis suspends   *)
(* at each close() it awaits, and other tasks run meanwhile.  One          *)
(* close_redis call is followed at a time.                                 *)
(***************************************************************************)
\* clients and subscription handles created in one run
MaxHandles == 3

Some(x) == {x}
The(opt) == CHOOSE x \in opt : TRUE

ClientHandle == [kind |-> "client", from |-> 0]
PubsubHandle(client) == [kind |-> "pubsub", from |-> client]

\* lines 26-33: the client get_redis returns and the handles made after it
GetRedis(client, handles) ==
    IF client = {}
    THEN [client |-> Len(handles) + 1, made |-> Append(handles, ClientHandle)]
    ELSE [client |-> The(client), made |-> handles]

\* get_redis
GetRedisCall ==
    /\ LET r == GetRedis(redis_client, made)
       IN  /\ Len(r.made) <= MaxHandles
           /\ redis_client' = Some(r.client)
           /\ made' = r.made
           /\ last' = [op |-> "get_redis", result |-> r.client,
                       created |-> Len(r.made) - Len(made),
                       held |-> redis_client, teardown |-> closePc]
    /\ UNCHANGED <<pubsub, closed, closePc, socketVars, storage, priceVars,
                   simVars, lifeVars, seedVars>>

\* get_pubsub, lines 45-49
GetPubsubCall ==
    /\ IF pubsub = {}
       THEN LET r == GetRedis(redis_client, made)
                handle == Len(r.made) + 1
            IN  /\ handle <= MaxHandles
                /\ redis_client' = Some(r.client)
                /\ made' = Append(r.made, PubsubHandle(r.client))
                /\ pubsub' = Some(handle)
                /\ last' = [op |-> "get_pubsub", result |-> handle,
                            created |-> Len(r.made) + 1 - Len(made),
                            held |-> pubsub, teardown |-> closePc]
       ELSE /\ last' = [op |-> "get_pubsub", result |-> The(pubsub), created |-> 0,
                        held |-> pubsub, teardown |-> closePc]
            /\ UNCHANGED <<redis_client, made, pubsub>>
    /\ UNCHANGED <<closed, closePc, socketVars, storage, priceVars,
                   simVars, lifeVars, seedVars>>

\* what close_redis goes on to once the subscription handle is dealt with
\* (line 60): the client's close(), or the return
AfterPubsub == IF redis_client # {} THEN "client" ELSE "idle"

CloseReturn(found) ==
    [op |-> "close_return", found |-> found, raised |-> FALSE]

\* close_redis is called, lines 56-60: up to the first close() it awaits
CloseRedis ==
    /\ closePc = "idle"
    /\ closePc' = IF pubsub # {} THEN "pubsub" ELSE AfterPubsub
    /\ last' = IF pubsub = {} /\ redis_client = {}
               THEN CloseReturn(FALSE)
               ELSE [op |-> "close_redis", pubsub |-> pubsub, client |-> redis_client]
    /\ UNCHANGED <<redis_client, pubsub, made, closed, socketVars, storage,
                   priceVars, simVars, lifeVars, seedVars>>

\* lines 57-60: await _pubsub.close() ends; on success the global is cleared
PubsubClosed ==
    /\ closePc = "pubsub"
    /\ \E outcome \in Outcomes :
         IF outcome = "ok"
         THEN /\ closed' = closed \cup pubsub
              /\ pubsub' = {}
              /\ closePc' = AfterPubsub
              /\ last' = IF redis_client # {}
                         THEN [op |-> "pubsub_closed", handle |-> The(pubsub)]
                         ELSE CloseReturn(TRUE)
         ELSE /\ closePc' = "idle"
              /\ last' = [op |-> "close_raised", found |-> TRUE, raised |-> TRUE]
              /\ UNCHANGED <<closed, pubsub>>
    /\ UNCHANGED <<redis_client, made, socketVars, storage, priceVars,
                   simVars, lifeVars, seedVars>>

\* lines 61-62: await _redis_client.close() ends; on success the global is cleared
ClientClosed ==
    /\ closePc = "client"
    /\ \E outcome \in Outcomes :
         IF outcome = "ok"
         THEN /\ closed' = closed \cup redis_client
              /\ redis_client' = {}
              /\ last' = CloseReturn(TRUE)
         ELSE /\ last' = [op |-> "close_raised", found |-> TRUE, raised |-> TRUE]
              /\ UNCHANGED <<closed, redis_client>>
    /\ closePc' = "idle"
    /\ UNCHANGED <<pubsub, made, socketVars, storage, priceVars,
                   simVars, lifeVars, seedVars>>

(***************************************************************************)
(* Market-update payloads (backend/app/realtime/publish.py,                *)
(* backend/app/realtime/socket.py).  A payload is a function from its keys *)
(* to their values; a string that is put together is the sequence of its   *)
(* pieces.                                                                 *)
(***************************************************************************)
SectorIdArgs == {{}, {"tech"}, {""}}
IndexValueArgs == {{}, {0}, {15075}}
TimestampArgs == {{}, {<<"2024-01-01T00:05:00Z">>}}
\* datetime.utcnow().isoformat()
UtcNow == {"2024-01-01T00:05:01.250000"}

\* payload[key] = value
Put(payload, key, value) ==
    [k \in DOMAIN payload \cup {key} |-> IF k = key THEN value ELSE payload[k]]

\* publish.py lines 33-44
PublishMarketUpdatePayload(sectorId, indexValue, stamp, utcnow) ==
    LET ts == IF stamp = {} THEN <<utcnow>> \o <<"Z">> ELSE The(stamp)
        payload == [k \in {"timestamp"} |-> ts]
    IN  IF sectorId # {}
        THEN Put(Put(payload, "sectorId", The(sectorId)), "value", indexValue)
        ELSE IF indexValue # {}
        THEN Put(payload, "indexValue", The(indexValue))
        ELSE payload

\* socket.py lines 64-75; BroadcastPayloadBoth is the faulty variant that
\* carries indexValue in a sector-scoped update as well
BroadcastPayloadBoth(sectorId, indexValue, stamp, utcnow) ==
    LET ts == IF stamp = {} THEN <<utcnow>> \o <<"Z">> ELSE The(stamp)
        payload == [k \in {"timestamp"} |-> ts]
        scoped == IF sectorId # {}
                  THEN Put(Put(payload, "sectorId", The(sectorId)), "value", indexValue)
                  ELSE payload
    IN  IF indexValue # {} THEN Put(scoped, "indexValue", The(indexValue)) ELSE scoped
BroadcastMarketUpdatePayload(sectorId, indexValue, stamp, utcnow) ==
    LET ts == IF stamp = {} THEN <<utcnow>> \o <<"Z">> ELSE The(stamp)
        payload == [k \in {"timestamp"} |-> ts]
    IN  IF sectorId # {}
        THEN Put(Put(payload, "sectorId", The(sectorId)), "value", indexValue)
        ELSE IF indexValue # {}
        THEN Put(payload, "indexValue", The(indexValue))
        ELSE payload

MarketUpdateArgs(sectorId, indexValue, stamp, utcnow) ==
    [timestamp |-> stamp, sectorId |-> sectorId, indexValue |-> indexValue,
     utcnow |-> utcnow]

\* publish_market_update, lines 33-47: the payload, the shared client, the publish
PublishMarketUpdateCall ==
    /\ \E sectorId \in SectorIdArgs, indexValue \in IndexValueArgs,
          stamp \in TimestampArgs, utcnow \in UtcNow :
         last' = [op |-> "publish_market_update", channel |-> "market_updates",
                  args |-> MarketUpdateArgs(sectorId, indexValue, stamp, utcnow),
                  payload |-> PublishMarketUpdatePayload(sectorId, indexValue,
                                                         stamp, utcnow)]
    /\ LET r == GetRedis(redis_client, made)
       IN  /\ Len(r.made) <= MaxHandles
           /\ redis_client' = Some(r.client)
           /\ made' = r.made
    /\ UNCHANGED <<pubsub, closed, closePc, socketVars, storage, priceVars,
                   simVars, lifeVars, seedVars>>

(***************************************************************************)
(* The push server (backend/app/realtime/socket.py): the connect and       *)
(* disconnect handlers and the four broadcast functions.                   *)
(***************************************************************************)
CandleArgs == {[timestamp |-> <<"2024-01-01T00:05:00Z">>, value |-> 15075]}
MessageArgs == {[id |-> "m1", content |-> "hello"]}
AgentIdArgs == {"agent1"}
StatusArgs == {"active"}

\* set.discard(sid); DiscardNothing is the faulty variant that removes nothing
DiscardNothing(clients, sid) == clients
Discard(clients, sid) == clients \ {sid}

\* sio.emit(event, data, room=sid) reaches the sessions of the room sid
Emit(event, data, room) == [event |-> event, data |-> data, room |-> room]

\* connect, lines 39-41: up to the end of the emit it awaits
Connect(sid) ==
    /\ connPc[sid] = "idle"
    /\ connected_clients' = connected_clients \cup {sid}
    /\ online' = online \cup {sid}
    /\ connPc' = [connPc EXCEPT ![sid] = "emit"]
    /\ last' = [op |-> "connect", sid |-> sid,
                emitted |-> <<Emit("connected",
                                   [message |-> "Connected to MAX realtime server"],
                                   {sid})>>]
    /\ UNCHANGED <<redisVars, storage, priceVars, simVars, lifeVars, seedVars>>

\* the emit of the connect handler ends and the handler returns
ConnectReturns(sid) ==
    /\ connPc[sid] = "emit"
    /\ connPc' = [connPc EXCEPT ![sid] = "idle"]
    /\ last' = [op |-> "connect_return", sid |-> sid, emitted |-> <<>>]
    /\ UNCHANGED <<connected_clients, online, redisVars, storage, priceVars,
                   simVars, lifeVars, seedVars>>

\* disconnect, lines 47-48
Disconnect(sid) ==
    /\ connected_clients' = Discard(connected_clients, sid)
    /\ online' = online \ {sid}
    /\ last' = [op |-> "disconnect", sid |-> sid, known |-> sid \in connected_clients,
                clients |-> connected_clients, emitted |-> <<>>]
    /\ UNCHANGED <<connPc, redisVars, storage, priceVars, simVars, lifeVars,
                   seedVars>>

Broadcast(name, event, args, payload) ==
    /\ last' = [op |-> name, args |-> args, payload |-> payload,
                clients |-> connected_clients,
                emitted |-> <<Emit(event, payload, {})>>]
    /\ UNCHANGED <<socketVars, redisVars, storage, priceVars, simVars, lifeVars,
                   seedVars>>

\* broadcastMarketUpdate, lines 64-77
BroadcastMarketUpdate ==
    \E sectorId \in SectorIdArgs, indexValue \in IndexValueArgs,
       stamp \in TimestampArgs, utcnow \in UtcNow :
        Broadcast("broadcastMarketUpdate", "market:update",
                  MarketUpdateArgs(sectorId, indexValue, stamp, utcnow),
                  BroadcastMarketUpdatePayload(sectorId, indexValue, stamp, utcnow))

\* broadcastSectorCandleUpdate, lines 92-97
BroadcastSectorCandleUpdate ==
    \E sectorId \in SectorIds, candle \in CandleArgs :
        Broadcast("broadcastSectorCandleUpdate", "sector:candle_update",
                  [sectorId |-> sectorId, candle |-> candle],
                  [sectorId |-> sectorId, candle |-> candle])

\* broadcastNewMessage, lines 112-117
BroadcastNewMessage ==
    \E discussionId \in {"d1"}, message \in MessageArgs :
        Broadcast("broadcastNewMessage", "discussion:new_message",
                  [discussionId |-> discussionId, message |-> message],
                  [discussionId |-> discussionId, message |-> message])

\* broadcastAgentStatusUpdate, lines 134-142
BroadcastAgentStatusUpdate ==
    \E agentId \in AgentIdArgs, sectorId \in {{}, {"tech"}}, status \in StatusArgs :
        Broadcast("broadcastAgentStatusUpdate", "agent:status_update",
                  [sectorId |-> sectorId, agentId |-> agentId, status |-> status],
                  LET payload == [k \in {"agentId", "status"} |->
                                    IF k = "agentId" THEN agentId ELSE status]
                  IN  IF sectorId # {} THEN Put(payload, "sectorId", The(sectorId))
                      ELSE payload)

RealtimeInit ==
    /\ SimIdle
    /\ LifeIdle
    /\ SeedIdle
    /\ SvcIdle
    /\ last = Step("init")

RealtimeNext ==
    \/ GetRedisCall
    \/ GetPubsubCall
    \/ CloseRedis
    \/ PubsubClosed
    \/ ClientClosed
    \/ PublishMarketUpdateCall
    \/ \E sid \in Sids : Connect(sid)
    \/ \E sid \in Sids : ConnectReturns(sid)
    \/ \E sid \in Sids : Disconnect(sid)
    \/ BroadcastMarketUpdate
    \/ BroadcastSectorCandleUpdate
    \/ BroadcastNewMessage
    \/ BroadcastAgentStatusUpdate

RealtimeSpec == RealtimeInit /\ [][RealtimeNext]_vars

(***************************************************************************)
(* C11  Whatever the arguments, the market-update payload that             *)
(* publish_market_update and broadcastMarketUpdate build has the keys      *)
(* sectorId and value and not indexValue when sectorId is supplied, has    *)
(* indexValue and neither sectorId nor value when sectorId is absent and   *)
(* indexValue is supplied, and is the same for both functions.             *)
(***************************************************************************)
C11_MarketPayloadShape ==
    last.op \in {"publish_market_update", "broadcastMarketUpdate"} =>
        LET a == last.args
            keys == DOMAIN last.payload
        IN  /\ a.sectorId # {} =>
                 {"sectorId", "value"} \subseteq keys /\ "indexValue" \notin keys
            /\ (a.sectorId = {} /\ a.indexValue # {}) =>
                 "indexValue" \in keys /\ {"sectorId", "value"} \cap keys = {}
            /\ last.payload =
                 PublishMarketUpdatePayload(a.sectorId, a.indexValue, a.timestamp, a.utcnow)
            /\ last.payload =
                 BroadcastMarketUpdatePayload(a.sectorId, a.indexValue, a.timestamp, a.utcnow)

C11_Witness ==
    /\ last.op = "broadcastMarketUpdate"
    /\ last.args.sectorId # {}
    /\ last.args.indexValue # {}
    /\ DOMAIN last.payload = {"timestamp", "sectorId", "value"}

(***************************************************************************)
(* C18  Between two teardowns every get_redis call returns the same client *)
(* and every get_pubsub call the same subscription handle, which was       *)
(* created from that client: a call creates nothing when the singleton is  *)
(* held.                                                                   *)
(***************************************************************************)
C18_OneClientOneHandle ==
    /\ (last.op \in {"get_redis", "get_pubsub"} /\ last.held # {}) =>
           last.result = The(last.held) /\ last.created = 0
    /\ (closePc = "idle" /\ pubsub # {} /\ redis_client # {}) =>
           made[The(pubsub)].from = The(redis_client)

(***************************************************************************)
(* C19  close_redis closes the subscription handle before the client,      *)
(* leaves both singletons cleared when it returns, does nothing when       *)
(* neither exists, and a get_redis call after it creates a fresh client.   *)
(***************************************************************************)
C19_TeardownClears ==
    /\ last.op = "close_return" => redis_client = {} /\ pubsub = {}
    /\ last.op = "pubsub_closed" => The(redis_client) \notin closed
    /\ (last.op = "get_redis" /\ last.held = {}) =>
           last.created = 1 /\ last.result \notin closed

(***************************************************************************)
(* C26  Under every interleaving of get_redis and get_pubsub calls with a  *)
(* close_redis suspended in one of the close() calls it awaits, the calls  *)
(* never return a client or subscription handle on which close() has been  *)
(* called.                                                                 *)
(***************************************************************************)
\* the handles close() has been called on: those whose close() has ended and
\* the one whose close() the suspended close_redis awaits
CloseCalledOn ==
    closed \cup (IF closePc = "pubsub" THEN pubsub ELSE {})
           \cup (IF closePc = "client" THEN redis_client ELSE {})

C26_NoClosedHandleReturned ==
    last.op \in {"get_redis", "get_pubsub"} => last.result \notin CloseCalledOn

(***************************************************************************)
(* C20  The connected-client set is exactly the sessions that connected    *)
(* and have not disconnected since; a connect emits one 'connected' event  *)
(* to the room of the connecting session only; a disconnect of an unknown  *)
(* session and the broadcast functions leave the set as it was.            *)
(***************************************************************************)
BroadcastNames ==
    {"broadcastMarketUpdate", "broadcastSectorCandleUpdate", "broadcastNewMessage",
     "broadcastAgentStatusUpdate"}

C20_ConnectedClients ==
    /\ connected_clients = online
    /\ last.op = "connect" =>
           /\ Len(last.emitted) = 1
           /\ last.emitted[1].event = "connected"
           /\ last.emitted[1].room = {last.sid}
    /\ (last.op = "disconnect" /\ ~last.known) => connected_clients = last.clients
    /\ last.op \in BroadcastNames => connected_clients = last.clients

C20_Witness ==
    /\ last.op = "disconnect"
    /\ last.known
    /\ connected_clients # {}
    /\ connected_clients # last.clients

(***************************************************************************)
(* The REST handlers (backend/app/api/sectors.py, agents.py,               *)
(* discussions.py) over the JSON files of backend/app/utils/storage.py.    *)
(* A stored record is a function from its keys to their values.  An ISO    *)
(* timestamp string is a positive integer, ordered as the strings are      *)
(* ordered as text; the empty string is 0.  A time label is the sequence   *)
(* of its five characters.  The stored records follow the domain schemas   *)
(* of backend/models/schemas.py except where a handler reads a key with a  *)
(* default: such keys may be absent, and a status may be any string.       *)
(***************************************************************************)
\* records per stored list
MaxAgents == 2
MaxDiscussions == 2
MaxMessages == 2

CandlePoints == 288
PointsPerHour == 12
HalfStep == 50
EmptyString == 0

\* dict.get(key, default)
Get(d, key, default) == IF key \in DOMAIN d THEN d[key] ELSE default

\* load_sectors, load_agents, load_discussions: the list read, and the files
\* after the load (a missing file is written as an empty list)
Load(file) == file.rows
Loaded(files, names) ==
    [n \in DOMAIN files |-> IF n \in names THEN File(files[n].rows) ELSE files[n]]

\* FastAPI's rendering of a raised HTTPException, and the envelope of a return
HTTPException(status_code, detail) ==
    [status |-> status_code, body |-> [detail |-> detail]]
ApiResponse(data) ==
    [status |-> 200, body |-> [success |-> TRUE, data |-> data, error |-> {}]]

AgentStatusValues == {"active", "idle", "processing", "offline"}
DiscussionStatusValues == {"created", "active", "closed", "archived"}

\* AgentStatus(status_str), IDLE on ValueError; AgentStatusRaw is the faulty
\* variant that passes the stored string on
AgentStatusRaw(status_str) == status_str
AgentStatusOf(status_str) ==
    IF status_str \in AgentStatusValues THEN status_str ELSE "idle"

DiscussionStatusOf(status_str) ==
    IF status_str \in DiscussionStatusValues THEN status_str ELSE "created"

\* the classes of the response models and what each extends (schemas/domain.py
\* lines 43-52 and 68-99): a field of a model type takes an instance of that
\* class or of a class that extends it
Extends(class) ==
    CASE class = "AgentRead" -> "Agent"
      [] class = "MessageRead" -> "Message"
      [] class = "SectorRead" -> "Sector"
      [] OTHER -> "BaseModel"
IsInstance(obj, class) == obj.model = class \/ Extends(obj.model) = class

\* the validation of the response models
IsIso(text) == text > EmptyString
AgentReadValid(a) ==
    /\ a.status \in AgentStatusValues
    /\ a.name # ""
    /\ a.role # ""
    /\ IsIso(a.createdAt)
MessageReadValid(m) == m.agentName # "" /\ IsIso(m.timestamp)
DiscussionSummaryRequired ==
    {"id", "sectorId", "title", "status", "createdAt", "updatedAt"}
DiscussionSummaryValid(kwargs) == DiscussionSummaryRequired \subseteq DOMAIN kwargs
MessagesValid(d) ==
    \A j \in 1..Len(d.messages) :
       IsInstance(d.messages[j], "MessageRead") /\ MessageReadValid(d.messages[j])
TimeValid(t) ==
    /\ Len(t) = 5
    /\ t[3] = ":"
    /\ \/ t[1] \in 0..1 /\ t[2] \in 0..9
       \/ t[1] = 2 /\ t[2] \in 0..3
    /\ t[4] \in 0..5
    /\ t[5] \in 0..9
CandlePointValid(c) == TimeValid(c.time) /\ c.value >= 0
SectorReadValid(r) ==
    /\ r.name # ""
    /\ r.symbol # ""
    /\ IsIso(r.createdAt)
    /\ r.currentPrice >= 0
    /\ r.volume >= 0
    /\ \A i \in 1..Len(r.agents) : IsInstance(r.agents[i], "Agent")
    /\ \A i \in 1..Len(r.discussions) : IsInstance(r.discussions[i], "Discussion")
    /\ Len(r.candleData) <= CandlePoints
    /\ \A i \in 1..Len(r.candleData) : CandlePointValid(r.candleData[i])

\* name[:4].upper()
Upper4(name) ==
    CASE name = "Energy" -> "ENER"
      [] name = "Technology" -> "TECH"
      [] name = "Financial" -> "FINA"
      [] OTHER -> ""

\* sector.get("symbol") or sector.get("name", "")[:4].upper()
SectorSymbol(sector) ==
    IF Get(sector, "symbol", "") # "" THEN sector.symbol
    ELSE Upper4(Get(sector, "name", ""))

\* {x.get("id"): x for x in rows}.get(id): the last record of that id, if any
Lookup(rows, id) ==
    LET at == {i \in 1..Len(rows) : rows[i].id = id}
    IN  IF at = {} THEN {} ELSE {rows[CHOOSE i \in at : \A j \in at : j <= i]}

\* next((x for x in rows if x.get("id") == id), None)
First(rows, id) ==
    LET at == {i \in 1..Len(rows) : rows[i].id = id}
    IN  IF at = {} THEN {} ELSE {rows[CHOOSE i \in at : \A j \in at : i <= j]}

\* list.sort(key=..., reverse=...): the positions 1..n of the list in sorted
\* order, equal keys in their original order; Unsorted is the faulty variant
\* that leaves the list as it is
RECURSIVE Sorted(_, _, _)
Unsorted(keys, n, reverse) == [i \in 1..n |-> i]
Sorted(keys, n, reverse) ==
    IF n = 0 THEN <<>>
    ELSE LET rest == Sorted(keys, n - 1, reverse)
             Ahead(e) == IF reverse THEN keys[e] >= keys[n] ELSE keys[e] <= keys[n]
             Behind(e) == ~Ahead(e)
         IN  SelectSeq(rest, Ahead) \o <<n>> \o SelectSeq(rest, Behind)

\* a truthy query parameter
Given(arg) == arg # {} /\ The(arg) # ""

\* the MessageRead of a stored message (discussions.py lines 112-126,
\* sectors.py lines 150-164)
MessageRead(msg_data, idx, disc_id, agents_data) ==
    LET agent_id == Get(msg_data, "agentId", "")
        agent_data == Lookup(agents_data, agent_id)
    IN  [model |-> "MessageRead",
         id |-> Get(msg_data, "id", <<disc_id, "-msg-", idx>>),
         discussionId |-> disc_id,
         agentId |-> agent_id,
         agentName |-> IF agent_data # {} THEN The(agent_data).name
                       ELSE Get(msg_data, "role", "Unknown"),
         content |-> Get(msg_data, "content", ""),
         timestamp |-> Get(msg_data, "timestamp",
                           Get(msg_data, "createdAt", EmptyString))]

MessagesRead(disc_data, agents_data) ==
    LET messages_data == Get(disc_data, "messages", <<>>)
    IN  [i \in 1..Len(messages_data) |->
           MessageRead(messages_data[i], i - 1, disc_data.id, agents_data)]

\* the AgentRead of a stored agent (agents.py lines 62-81, sectors.py lines 96-122)
AgentRead(agent_data, sector_id_default, sector, symbol) ==
    [model |-> "AgentRead",
     id |-> agent_data.id,
     name |-> Get(agent_data, "name", Get(agent_data, "role", "Unknown")),
     role |-> Get(agent_data, "role", "general"),
     status |-> AgentStatusOf(Get(agent_data, "status", "idle")),
     personality |->
         LET personality_data == Get(agent_data, "personality", [k \in {} |-> ""])
         IN  [riskTolerance |-> Get(personality_data, "riskTolerance", "moderate"),
              decisionStyle |-> Get(personality_data, "decisionStyle", "balanced")],
     performance |-> Get(agent_data, "performance", 0),
     trades |-> Get(agent_data, "trades", 0),
     sectorId |-> Get(agent_data, "sectorId", sector_id_default),
     createdAt |-> Get(agent_data, "createdAt", EmptyString),
     sectorName |-> IF sector # {} THEN {Get(The(sector), "name", "")} ELSE {},
     sectorSymbol |-> symbol]

\* GET /api/agents: get_agents, lines 29-87
GetAgentsResponse(files, sector_id, status) ==
    LET agents_data == Load(files.agents)
        sectors_data == Load(files.sectors)
        InSector(a) == Get(a, "sectorId", "") = The(sector_id)
        HasStatus(a) == Get(a, "status", "") = The(status)
        by_sector == IF Given(sector_id) THEN SelectSeq(agents_data, InSector)
                     ELSE agents_data
        filtered_agents == IF Given(status) THEN SelectSeq(by_sector, HasStatus)
                           ELSE by_sector
        agents_list ==
            [i \in 1..Len(filtered_agents) |->
               LET agent_data == filtered_agents[i]
                   sector == IF Get(agent_data, "sectorId", "") # ""
                             THEN Lookup(sectors_data, agent_data.sectorId) ELSE {}
                   symbol == IF sector # {} THEN {SectorSymbol(The(sector))} ELSE {}
               IN  AgentRead(agent_data, "", sector, symbol)]
    IN  IF \E i \in 1..Len(agents_list) : ~AgentReadValid(agents_list[i])
        THEN HTTPException(500, "validation error")
        ELSE ApiResponse(agents_list)

\* GET /api/discussions: get_discussions, lines 28-80
DiscussionSummary(disc_data, sectors_data) ==
    LET sector == IF Get(disc_data, "sectorId", "") # ""
                  THEN Lookup(sectors_data, disc_data.sectorId) ELSE {}
    IN  [model |-> "DiscussionSummary",
         id |-> disc_data.id,
         sectorId |-> Get(disc_data, "sectorId", ""),
         sectorSymbol |-> IF sector # {} THEN {SectorSymbol(The(sector))} ELSE {},
         title |-> Get(disc_data, "title", ""),
         status |-> DiscussionStatusOf(Get(disc_data, "status", "created")),
         agentIds |-> Get(disc_data, "agentIds", <<>>),
         messagesCount |-> Len(Get(disc_data, "messages", <<>>)),
         updatedAt |-> Get(disc_data, "updatedAt",
                           Get(disc_data, "createdAt", EmptyString))]

GetDiscussionsResponse(files, sector_id, status) ==
    LET discussions_data == Load(files.discussions)
        sectors_data == Load(files.sectors)
        InSector(d) == Get(d, "sectorId", "") = The(sector_id)
        HasStatus(d) == Get(d, "status", "") = The(status)
        by_sector == IF Given(sector_id) THEN SelectSeq(discussions_data, InSector)
                     ELSE discussions_data
        filtered_discussions == IF Given(status) THEN SelectSeq(by_sector, HasStatus)
                                ELSE by_sector
        summaries == [i \in 1..Len(filtered_discussions) |->
                        DiscussionSummary(filtered_discussions[i], sectors_data)]
        keys == [i \in 1..Len(summaries) |-> summaries[i].updatedAt]
        order == Sorted(keys, Len(summaries), TRUE)
    IN  IF \E i \in 1..Len(summaries) : ~DiscussionSummaryValid(summaries[i])
        THEN HTTPException(500, "validation error")
        ELSE ApiResponse([i \in 1..Len(summaries) |-> summaries[order[i]]])

\* GET /api/discussions/{id}: get_discussion_by_id, lines 89-146
GetDiscussionByIdResponse(files, discussion_id) ==
    LET disc == First(Load(files.discussions), discussion_id)
    IN  IF disc = {} THEN HTTPException(404, "Discussion not found")
        ELSE
        LET disc_data == The(disc)
            messages_list == MessagesRead(disc_data, Load(files.agents))
            keys == [i \in 1..Len(messages_list) |-> messages_list[i].timestamp]
            order == Sorted(keys, Len(messages_list), FALSE)
        IN  IF \E i \in 1..Len(messages_list) : ~MessageReadValid(messages_list[i])
            THEN HTTPException(500, "validation error")
            ELSE ApiResponse(
                   [model |-> "DiscussionRead",
                    id |-> disc_data.id,
                    sectorId |-> Get(disc_data, "sectorId", ""),
                    title |-> Get(disc_data, "title", ""),
                    status |-> DiscussionStatusOf(Get(disc_data, "status", "created")),
                    agentIds |-> Get(disc_data, "agentIds", <<>>),
                    messages |-> [i \in 1..Len(messages_list) |->
                                    messages_list[order[i]]],
                    createdAt |-> Get(disc_data, "createdAt", EmptyString),
                    updatedAt |-> Get(disc_data, "updatedAt",
                                      Get(disc_data, "createdAt", EmptyString))])

\* f"{hour:02d}:{minute:02d}"
TimeStr(hour, minute) ==
    <<hour \div 10, hour % 10, ":", minute \div 10, minute % 10>>

\* the draws of random.uniform(-0.5, 0.5): the walk goes up by 0.5 at every
\* step, down by 0.5 at every step, or up and down in turn; WalkSum is what
\* the first n steps add to base_price
WalkDraws == {"up", "down", "zigzag"}
WalkSum(walk, n) ==
    CASE walk = "up" -> n * HalfStep
      [] walk = "down" -> -(n * HalfStep)
      [] OTHER -> (n % 2) * HalfStep

\* max(0, base_price)
CandleValue(base_price) == Max(0, base_price)

\* sectors.py lines 189-197: the fabricated series
Fabricate(base_price, walk) ==
    [k \in 1..CandlePoints |->
       LET i == k - 1
           hour == i \div PointsPerHour
           minute == (i % PointsPerHour) * 5
       IN  [time |-> TimeStr(hour, minute),
            value |-> CandleValue(base_price + WalkSum(walk, i + 1))]]

\* GET /api/sectors/{id}: get_sector_by_id, lines 66-218
GetSectorByIdResponse(files, sector_id, walk) ==
    LET sectors_data == Load(files.sectors)
        agents_data == Load(files.agents)
        discussions_data == Load(files.discussions)
        found == First(sectors_data, sector_id)
    IN  IF found = {} THEN HTTPException(404, "Sector not found")
        ELSE
        LET sector == The(found)
            InSector(x) == Get(x, "sectorId", "") = sector_id
            sector_agents == SelectSeq(agents_data, InSector)
            sector_discussions == SelectSeq(discussions_data, InSector)
            symbol == SectorSymbol(sector)
            agents_list == [i \in 1..Len(sector_agents) |->
                              AgentRead(sector_agents[i], sector_id, found, {symbol})]
            discussions_list ==
                [i \in 1..Len(sector_discussions) |->
                   LET disc_data == sector_discussions[i]
                   IN  [model |-> "DiscussionRead",
                        id |-> disc_data.id,
                        sectorId |-> Get(disc_data, "sectorId", ""),
                        title |-> Get(disc_data, "title", ""),
                        status |-> DiscussionStatusOf(Get(disc_data, "status", "created")),
                        agentIds |-> Get(disc_data, "agentIds", <<>>),
                        messages |-> MessagesRead(disc_data, agents_data),
                        createdAt |-> Get(disc_data, "createdAt", EmptyString),
                        updatedAt |-> Get(disc_data, "updatedAt", EmptyString)]]
            stored == Get(sector, "candleData", <<>>)
            candle_data == IF stored = <<>>
                           THEN Fabricate(Get(sector, "currentPrice", 10000), walk)
                           ELSE stored
            sector_read ==
                [model |-> "SectorRead",
                 id |-> sector.id,
                 name |-> Get(sector, "name", ""),
                 symbol |-> symbol,
                 createdAt |-> Get(sector, "createdAt", EmptyString),
                 currentPrice |-> Get(sector, "currentPrice", 0),
                 change |-> Get(sector, "change", 0),
                 changePercent |-> Get(sector, "changePercent", 0),
                 volume |-> Get(sector, "volume", 0),
                 agents |-> agents_list,
                 discussions |-> discussions_list,
                 candleData |-> candle_data]
            invalid ==
                \/ \E i \in 1..Len(agents_list) : ~AgentReadValid(agents_list[i])
                \/ \E i \in 1..Len(discussions_list) : ~MessagesValid(discussions_list[i])
                \/ ~SectorReadValid(sector_read)
        IN  IF invalid THEN HTTPException(500, "validation error")
            ELSE ApiResponse(sector_read)

(***************************************************************************)
(* The stored files the handlers are checked on.  Ids follow the position  *)
(* in the list.  One list at a time is varied: the agents, the discussions *)
(* or the messages of a discussion; and there is the fresh installation,   *)
(* where no file exists yet.                                               *)
(***************************************************************************)
StoredCandles ==
    << [time |-> TimeStr(0, 0), value |-> 9900], [time |-> TimeStr(0, 5), value |-> 9950] >>

TechSector ==
    [id |-> "tech", name |-> "Technology", symbol |-> "TECH", createdAt |-> 1,
     currentPrice |-> 100, change |-> 0, changePercent |-> 0, volume |-> 0]
FinanceSector ==
    [id |-> "finance", name |-> "Financial", symbol |-> "FINC", createdAt |-> 1,
     change |-> 0, changePercent |-> 0, volume |-> 0, candleData |-> <<>>]
EnergySector ==
    [id |-> "energy", name |-> "Energy", createdAt |-> 1, currentPrice |-> 9900,
     change |-> 0, changePercent |-> 0, volume |-> 0, candleData |-> StoredCandles]
StoredSectors == <<TechSector, FinanceSector, EnergySector>>

\* a stored agent: its status (absent, of the enumeration, or another string)
\* and its sector
AgentShapes ==
    {[status |-> {}, sectorId |-> "tech"],
     [status |-> {"active"}, sectorId |-> "tech"],
     [status |-> {"active"}, sectorId |-> "finance"],
     [status |-> {"Active"}, sectorId |-> "tech"],
     [status |-> {"retired"}, sectorId |-> "finance"]}
StoredAgent(i, shape) ==
    LET agent == [id |-> <<"a", i>>, name |-> "Trader Agent", role |-> "trader",
                  performance |-> 0, trades |-> 0, sectorId |-> shape.sectorId,
                  personality |-> [riskTolerance |-> "Low"], createdAt |-> 1]
    IN  IF shape.status = {} THEN agent ELSE Put(agent, "status", The(shape.status))
AgentLists ==
    {[i \in 1..Len(shapes) |-> StoredAgent(i, shapes[i])] :
        shapes \in UNION {[1..n -> AgentShapes] : n \in 0..MaxAgents}}
DefaultAgents == <<StoredAgent(1, [status |-> {"active"}, sectorId |-> "tech"])>>

MessageShapes ==
    {[key |-> "timestamp", at |-> 1, agentId |-> <<"a", 1>>],
     [key |-> "timestamp", at |-> 2, agentId |-> <<"a", 1>>],
     [key |-> "createdAt", at |-> 1, agentId |-> <<"a", 1>>],
     [key |-> "timestamp", at |-> 2, agentId |-> <<"ghost", 0>>]}
StoredMessage(i, shape) ==
    Put([id |-> <<"m", i>>, agentId |-> shape.agentId, role |-> "analyst",
         content |-> "The data suggests a shift."],
        shape.key, shape.at)
MessageLists ==
    {[i \in 1..Len(shapes) |-> StoredMessage(i, shapes[i])] :
        shapes \in UNION {[1..n -> MessageShapes] : n \in 0..MaxMessages}}
DefaultMessages == <<StoredMessage(1, [key |-> "timestamp", at |-> 1, agentId |-> <<"a", 1>>])>>

DiscussionShapes ==
    {[updatedAt |-> {}, sectorId |-> "finance", status |-> "active"],
     [updatedAt |-> {5}, sectorId |-> "finance", status |-> "active"],
     [updatedAt |-> {6}, sectorId |-> "energy", status |-> "closed"],
     [updatedAt |-> {5}, sectorId |-> "energy", status |-> "active"]}
StoredDiscussion(i, shape, messages) ==
    LET disc == [id |-> <<"d", i>>, sectorId |-> shape.sectorId, title |-> "Market Outlook",
                 status |-> shape.status, agentIds |-> <<>>, messages |-> messages,
                 createdAt |-> i]
    IN  IF shape.updatedAt = {} THEN disc ELSE Put(disc, "updatedAt", The(shape.updatedAt))
DiscussionLists ==
    {[i \in 1..Len(shapes) |-> StoredDiscussion(i, shapes[i], DefaultMessages)] :
        shapes \in UNION {[1..n -> DiscussionShapes] : n \in 0..MaxDiscussions}}
DefaultDiscussions ==
    <<StoredDiscussion(1, [updatedAt |-> {5}, sectorId |-> "finance", status |-> "active"],
                       DefaultMessages)>>

Files(sector_rows, agent_rows, discussion_rows) ==
    [sectors |-> File(sector_rows), agents |-> File(agent_rows),
     discussions |-> File(discussion_rows)]

StorageInputs ==
    {NoFiles}
    \cup {Files(StoredSectors, a, DefaultDiscussions) : a \in AgentLists}
    \cup {Files(StoredSectors, DefaultAgents, d) : d \in DiscussionLists}
    \cup {Files(StoredSectors, DefaultAgents,
                <<StoredDiscussion(1, [updatedAt |-> {5}, sectorId |-> "finance",
                                       status |-> "active"], m)>>) : m \in MessageLists}

\* the requests
SectorIdQueries == {{}, {"tech"}, {""}}
AgentStatusQueries == {{}, {"active"}, {"idle"}}
DiscussionSectorQueries == {{}, {"finance"}}
DiscussionStatusQueries == {{}, {"active"}}
DiscussionIdPaths == {<<"d", 1>>, <<"d", 2>>, <<"does-not-exist", 0>>}
SectorIdPaths == {"tech", "finance", "energy", "does-not-exist"}

Respond(name, args, loads, response) ==
    /\ storage' = Loaded(storage, loads)
    /\ last' = [op |-> name, args |-> args, files |-> storage,
                status |-> response.status, body |-> response.body]
    /\ UNCHANGED <<redisVars, socketVars, priceVars, simVars, lifeVars, seedVars>>

GetAgents ==
    \E sector_id \in SectorIdQueries, status \in AgentStatusQueries :
        Respond("get_agents", [status |-> status, sector_id |-> sector_id],
                {"agents", "sectors"}, GetAgentsResponse(storage, sector_id, status))

GetDiscussions ==
    \E sector_id \in DiscussionSectorQueries, status \in DiscussionStatusQueries :
        Respond("get_discussions", [status |-> status, sector_id |-> sector_id],
                {"discussions", "sectors"},
                GetDiscussionsResponse(storage, sector_id, status))

GetDiscussionById ==
    \E discussion_id \in DiscussionIdPaths :
        LET response == GetDiscussionByIdResponse(storage, discussion_id)
        IN  Respond("get_discussion_by_id", [discussion_id |-> discussion_id],
                    IF response.status = 404 THEN {"discussions"}
                    ELSE {"discussions", "agents"},
                    response)

GetSectorById ==
    \E sector_id \in SectorIdPaths, walk \in WalkDraws :
        Respond("get_sector_by_id", [sector_id |-> sector_id, walk |-> walk],
                {"sectors", "agents", "discussions"},
                GetSectorByIdResponse(storage, sector_id, walk))

ApiInit ==
    /\ SimIdle
    /\ LifeIdle
    /\ SeedIdle
    /\ RedisIdle
    /\ SocketIdle
    /\ PriceIdle
    /\ storage \in StorageInputs
    /\ last = Step("init")

ApiNext ==
    \/ GetAgents
    \/ GetDiscussions
    \/ GetDiscussionById
    \/ GetSectorById

ApiSpec == ApiInit /\ [][ApiNext]_vars

(***************************************************************************)
(* C12  GET /api/discussions, for stored discussions that match the        *)
(* filters and have distinct updatedAt values (createdAt where updatedAt   *)
(* is absent), answers successfully with every matching discussion, in     *)
(* strictly descending order of updatedAt.                                 *)
(***************************************************************************)
StoredUpdatedAt(d) == Get(d, "updatedAt", Get(d, "createdAt", EmptyString))

Matching(rows, sector_id, status) ==
    {i \in 1..Len(rows) :
        /\ Given(sector_id) => Get(rows[i], "sectorId", "") = The(sector_id)
        /\ Given(status) => Get(rows[i], "status", "") = The(status)}

C12_ListingDescending ==
    last.op = "get_discussions" =>
        LET rows == last.files.discussions.rows
            matching == Matching(rows, last.args.sector_id, last.args.status)
            distinct == \A i, j \in matching :
                           i # j => StoredUpdatedAt(rows[i]) # StoredUpdatedAt(rows[j])
        IN  distinct =>
              /\ last.status = 200
              /\ last.body.success
              /\ Len(last.body.data) = Cardinality(matching)
              /\ \A i \in matching : \E k \in 1..Len(last.body.data) :
                    last.body.data[k].id = rows[i].id
              /\ \A k, l \in 1..Len(last.body.data) :
                    k < l => last.body.data[k].updatedAt > last.body.data[l].updatedAt

(***************************************************************************)
(* C13  GET /api/discussions/{id} of a stored discussion answers with all  *)
(* of its stored messages, in non-decreasing order of timestamp whatever   *)
(* their order in storage; messages of equal timestamp keep their storage  *)
(* order.                                                                  *)
(***************************************************************************)
StoredTimestamp(m) == Get(m, "timestamp", Get(m, "createdAt", EmptyString))

StoredMessagesOf(rows, discussion_id) == The(First(rows, discussion_id)).messages

C13_MessagesInTimestampOrder ==
    (/\ last.op = "get_discussion_by_id"
     /\ First(last.files.discussions.rows, last.args.discussion_id) # {}) =>
        /\ last.status = 200
        /\ LET held == StoredMessagesOf(last.files.discussions.rows,
                                        last.args.discussion_id)
               messages == last.body.data.messages
               at == [k \in 1..Len(messages) |->
                        CHOOSE i \in 1..Len(held) : held[i].id = messages[k].id]
           IN  /\ Len(messages) = Len(held)
               /\ {at[k] : k \in 1..Len(messages)} = 1..Len(held)
               /\ \A k \in 1..Len(messages) :
                     messages[k].timestamp = StoredTimestamp(held[at[k]])
               /\ \A k, l \in 1..Len(messages) :
                     k < l => /\ messages[k].timestamp <= messages[l].timestamp
                              /\ messages[k].timestamp = messages[l].timestamp
                                   => at[k] < at[l]

C13_Witness ==
    /\ last.op = "get_discussion_by_id"
    /\ last.status = 200
    /\ LET held == StoredMessagesOf(last.files.discussions.rows, last.args.discussion_id)
       IN  /\ Len(held) = 2
           /\ StoredTimestamp(held[1]) > StoredTimestamp(held[2])
           /\ last.body.data.messages[1].id = held[2].id

(***************************************************************************)
(* C14  GET /api/sectors/{id} with an id of no stored sector answers with  *)
(* status 404 and a body in the {success, data, error} envelope whose      *)
(* success is false.                                                       *)
(***************************************************************************)
C14_NotFoundEnvelope ==
    (/\ last.op = "get_sector_by_id"
     /\ First(last.files.sectors.rows, last.args.sector_id) = {}) =>
        /\ last.status = 404
        /\ {"success", "data", "error"} \subseteq DOMAIN last.body
        /\ last.body.success = FALSE

(***************************************************************************)
(* C15  For a stored sector without candleData (absent or an empty list)   *)
(* GET /api/sectors/{id} returns exactly 288 candle points labelled 00:00, *)
(* 00:05, ..., 23:55 in that order, each of value >= 0; for a sector with  *)
(* candleData it returns the stored points and fabricates none.            *)
(***************************************************************************)
Label(minutes) ==
    LET hh == minutes \div 60
        mm == minutes % 60
    IN  <<hh \div 10, hh % 10, ":", mm \div 10, mm % 10>>

C15_FabricatedCandles ==
    (/\ last.op = "get_sector_by_id"
     /\ First(last.files.sectors.rows, last.args.sector_id) # {}) =>
        LET held == Get(The(First(last.files.sectors.rows, last.args.sector_id)),
                        "candleData", <<>>)
        IN  /\ last.status = 200
            /\ LET points == last.body.data.candleData
               IN  IF held = <<>>
                   THEN /\ Len(points) = CandlePoints
                        /\ \A k \in 1..Len(points) :
                              /\ points[k].time = Label((k - 1) * 5)
                              /\ points[k].value >= 0
                   ELSE points = held

(***************************************************************************)
(* C16  GET /api/agents?status=active returns exactly the stored agents    *)
(* whose status is 'active' (and that pass the sectorId filter when one is *)
(* given); an unfiltered listing reports every agent, and reports status   *)
(* idle for an agent whose stored status is missing or is not one of       *)
(* active, idle, processing, offline.                                      *)
(***************************************************************************)
C16_AgentsStatusFilter ==
    last.op = "get_agents" =>
        LET rows == last.files.agents.rows
            active == {i \in 1..Len(rows) :
                         /\ "status" \in DOMAIN rows[i]
                         /\ rows[i].status = "active"
                         /\ Given(last.args.sector_id) =>
                                rows[i].sectorId = The(last.args.sector_id)}
        IN  /\ last.status = 200
            /\ last.args.status = {"active"} =>
                 /\ Len(last.body.data) = Cardinality(active)
                 /\ \A i \in active : \E k \in 1..Len(last.body.data) :
                       last.body.data[k].id = rows[i].id
                 /\ \A k \in 1..Len(last.body.data) : last.body.data[k].status = "active"
            /\ (~Given(last.args.status) /\ ~Given(last.args.sector_id)) =>
                 /\ Len(last.body.data) = Len(rows)
                 /\ \A i \in 1..Len(rows) :
                       /\ last.body.data[i].id = rows[i].id
                       /\ last.body.data[i].status =
                            IF "status" \in DOMAIN rows[i]
                               /\ rows[i].status \in AgentStatusValues
                            THEN rows[i].status ELSE "idle"

C16_Witness ==
    /\ last.op = "get_agents"
    /\ ~Given(last.args.status)
    /\ ~Given(last.args.sector_id)
    /\ last.status = 200
    /\ Len(last.body.data) = 2
    /\ "status" \notin DOMAIN last.files.agents.rows[1]
    /\ Get(last.files.agents.rows[2], "status", "") = "retired"
    /\ last.body.data[1].status = "idle"
    /\ last.body.data[2].status = "idle"

(***************************************************************************)
(* The price model (market_simulator.py, _generate_price_change, lines     *)
(* 43-117) with the trend state it keeps per sector.  Angles are in        *)
(* hundredths of a radian, momentum and the terms of change_percent in     *)
(* hundredths of a percent; a product with a decimal factor is rounded     *)
(* down.  math.sin is Bhaskara's rational approximation.                   *)
(***************************************************************************)
\* calls of _generate_price_change followed in one run
MaxCalls == 2

Pi == 314
TwoPi == 628
PhaseStep == 10
TrendWeight == 20
WaveWeight == 30

TrendChoices == {"up", "down", "volatile"}
TrendBiasArgs == {{}, {"down"}}
PhaseDraws == {152, 620}
RandomChangeDraws == {-50, 50}
BasePrices == {1, 10000}

\* math.sin(x) * 0.3 for 0 <= x <= pi
HalfWave(x) ==
    (WaveWeight * 16 * x * (Pi - x)) \div (5 * Pi * Pi - 4 * x * (Pi - x))
\* math.sin(wave_phase) * 0.3
WaveInfluence(wave_phase) ==
    IF wave_phase <= Pi THEN HalfWave(wave_phase) ELSE -HalfWave(wave_phase - Pi)

\* lines 67-72: the trend state of a sector seen for the first time
FirstTrendState(trend_bias, choice, phase) ==
    [trend |-> IF trend_bias # {} THEN The(trend_bias) ELSE choice,
     wave_phase |-> phase, momentum |-> 0]

\* line 104: momentum * 0.7 + change_percent * 0.3; MomentumNoDecay is the
\* faulty variant that keeps the whole of the old momentum
MomentumNoDecay(momentum, change_percent) == momentum + (change_percent * 3) \div 10
Momentum(momentum, change_percent) == (momentum * 7 + change_percent * 3) \div 10

\* lines 77-111: change_percent and the trend state the call leaves
TrendStep(trend_state, direction, random_change, flip, choice) ==
    LET trend_direction == IF trend_state.trend = "up" THEN 1
                           ELSE IF trend_state.trend = "down" THEN -1
                           ELSE direction
        advanced == trend_state.wave_phase + PhaseStep
        wave_phase == IF advanced > TwoPi THEN advanced - TwoPi ELSE advanced
        wave_influence == WaveInfluence(wave_phase)
        momentum_factor == (trend_state.momentum * 2) \div 10
        change_percent == trend_direction * TrendWeight + wave_influence
                          + momentum_factor + (random_change * 3) \div 10
    IN  [change_percent |-> change_percent,
         state |-> [trend |-> IF flip THEN choice ELSE trend_state.trend,
                    wave_phase |-> wave_phase,
                    momentum |-> Momentum(trend_state.momentum, change_percent)]]

\* _generate_price_change(base_price, sector_id, trend_bias) with its
\* arguments taken from the given sets; a draw the code does not make on this
\* path has one value
GeneratePriceChangeOf(ids, prices, biases) ==
    /\ calls' = calls + 1
    /\ \E sector_id \in ids, base_price \in prices, trend_bias \in biases :
         LET known == sector_id \in DOMAIN sector_trends
         IN  \E first \in IF known \/ trend_bias # {} THEN {"up"} ELSE TrendChoices,
                phase \in IF known THEN {0} ELSE PhaseDraws :
               LET trend_state == IF known THEN sector_trends[sector_id]
                                  ELSE FirstTrendState(trend_bias, first, phase)
               IN  \E direction \in IF trend_state.trend = "volatile" THEN {-1, 1} ELSE {1},
                      random_change \in RandomChangeDraws, flip \in BOOLEAN :
                     \E choice \in IF flip THEN TrendChoices ELSE {"up"} :
                       LET step == TrendStep(trend_state, direction, random_change,
                                             flip, choice)
                       IN  /\ sector_trends' =
                                 [s \in DOMAIN sector_trends \cup {sector_id} |->
                                    IF s = sector_id THEN step.state
                                    ELSE sector_trends[s]]
                           /\ last' = [op |-> "generate_price_change",
                                       sector |-> sector_id,
                                       base_price |-> base_price, known |-> known,
                                       prior |-> trend_state,
                                       change_percent |-> step.change_percent,
                                       result |-> GeneratePriceChange(
                                                      base_price, step.change_percent)]
    /\ UNCHANGED <<redisVars, socketVars, storage, simVars, lifeVars, seedVars>>

\* a call for any sector, with or without a trend_bias
GeneratePriceChangeCall ==
    /\ calls < MaxCalls
    /\ GeneratePriceChangeOf(SectorIds, BasePrices, TrendBiasArgs)

PriceInit ==
    /\ SimIdle
    /\ LifeIdle
    /\ SeedIdle
    /\ SvcIdle
    /\ last = Step("init")

PriceNext == GeneratePriceChangeCall

PriceSpec == PriceInit /\ [][PriceNext]_vars

(***************************************************************************)
(* The trend state of one sector over a long run of calls without a        *)
(* trend_bias, as the simulator makes them (line 155).                     *)
(***************************************************************************)
\* calls of _generate_price_change for the sector followed in the run
MaxRunCalls == 16

GeneratePriceChangeRun ==
    /\ calls < MaxRunCalls
    /\ GeneratePriceChangeOf({"tech"}, BasePrices, {{}})

TrendNext == GeneratePriceChangeRun

TrendSpec == PriceInit /\ [][TrendNext]_vars

(***************************************************************************)
(* C17  For every base_price > 0, every prior trend state of the sector    *)
(* and every outcome of the random draws, _generate_price_change returns a *)
(* value of at least 0.01.                                                 *)
(***************************************************************************)
C17_PriceFloor ==
    (last.op = "generate_price_change" /\ last.base_price > 0) => last.result >= MinPrice

C17_Witness ==
    /\ last.op = "generate_price_change"
    /\ last.known
    /\ last.base_price = MinPrice
    /\ last.change_percent < 0
    /\ last.result = MinPrice

(***************************************************************************)
(* C29  After any number of calls for a sector its trend state has a trend *)
(* of up, down or volatile, a wave_phase from 0 to 2*pi and a momentum of  *)
(* absolute value below 1; the change_percent of every call has absolute   *)
(* value below 1, and the price returned is within 1% of base_price unless *)
(* it is the floor 0.01.                                                   *)
(***************************************************************************)
\* 1 (percent, or unit of momentum) in hundredths is 100
Abs(x) == IF x < 0 THEN -x ELSE x

C29_TrendStateBounded ==
    /\ \A s \in DOMAIN sector_trends :
          /\ sector_trends[s].trend \in TrendChoices
          /\ sector_trends[s].wave_phase >= 0
          /\ sector_trends[s].wave_phase <= TwoPi
          /\ Abs(sector_trends[s].momentum) < 100
    /\ last.op = "generate_price_change" =>
          /\ Abs(last.change_percent) < 100
          /\ \/ last.result = MinPrice
             \/ Abs(last.result - last.base_price) * 100 < last.base_price

\* a late call of a long run, for a sector whose wave has wrapped around: the
\* momentum has built up to more than 0.7
C29_Witness ==
    /\ last.op = "generate_price_change"
    /\ last.known
    /\ calls > 10
    /\ sector_trends[last.sector].wave_phase < 152
    /\ Abs(sector_trends[last.sector].momentum) > 70
    /\ Abs(last.change_percent) > 70
    /\ last.result # MinPrice
====
